---- MODULE Spec2Model ----
(***************************************************************************)
(* Verification model of the pull-request data pipeline.                   *)
(*                                                                         *)
(* Three independent parts of the repository are modelled, each as its own *)
(* specification over the shared variable list:                            *)
(*   Spec      - _calculate_inferred_push_dates (both copies) and the       *)
(*               caller loop that accumulates the commit list;             *)
(*   SpecRev   - the revision classifier of main8 / analytics-accept-rate;  *)
(*   SpecFetch - the paginated fetchers and their retry loops.             *)
(***************************************************************************)
EXTENDS Integers, Sequences, FiniteSets, TLC

VARIABLES
    \* ---- inferred push dates ----
    variant,               \* which copy runs: "apr" (add-push-date.py) or "analytics"
    commits,               \* all_commits_summary, the argument of the function
    sorted_commits,        \* local sorted_commits
    idx,                   \* position of the for loop in sorted_commits
    commit_groups,         \* local commit_groups
    current_group,         \* local current_group
    sha_to_push_date_map,  \* the returned dict, as a function sha -> timestamp
    push_pc,               \* "idle" | "fetch" | "loop" | "done" | "raised"
    \* ---- revision classifier ----
    df,                    \* the commit rows handed to the classifier
    rev_file,              \* output of extract_prs_with_revision
    norev_file,            \* output of extract_prs_without_revision
    analysis,              \* what analyze_final_data computed
    rev_pc,                \* "idle" | "load" | "rev_done" | "done" | "analyzed"
    \* ---- paginated fetchers ----
    fetcher,               \* "main1" | "main3" | "main5" | "hpr_main4" | "hpr_main1"
    pages,                 \* the source: the pages of records the API holds
    requests,              \* the page requests issued so far, with their answers
    sleeps,                \* the time.sleep() calls made so far, in seconds
    cursor,                \* current_cursor / commits_after_cursor / after_cursor
    page_count,            \* page_count (main1), page_num (get_all_pr_commits_data)
    attempt,               \* attempt of the retry loop
    acc,                   \* current_query_prs_data / all_commits_info / all_commits_nodes
    active,                \* pagination_loop_active / has_next_page
    last_exception,        \* main1: last_exception is not None
    total_found,           \* total_found_for_query / total_commits_count_pr
    ret,                   \* what the fetcher returned
    fetch_pc,              \* "idle" | "run" | "done"
    \* ---- the row loops of the batch scripts ----
    script,                \* which script runs
    column_in_header,      \* the input CSV already has the column(s) the script adds
    in_rows,               \* the rows of the input CSV file
    row_num,               \* rows consumed by the for loop so far
    processed_rows,        \* results_list / processed_rows / rows handed to the writer
    printed,               \* the messages printed so far, with the row they name
    batch_sleeps,          \* the time.sleep() calls made so far, in tenths of a second
    calls,                 \* the API calls made so far: row and answer
    out_file,              \* the output file: whether written, and its rows
    batch_pc,              \* "idle" | "run" | "done" | "aborted"
    \* ---- per-PR aggregation ----
    agg_df,                \* the argument df of recalculate_pr_metrics
    agg_once,              \* recalculate_pr_metrics(df)
    agg_twice,             \* recalculate_pr_metrics(recalculate_pr_metrics(df))
    agg_pc,                \* "idle" | "load" | "once" | "twice"
    \* ---- main1: the split of a query's records into the three lists ----
    current_file_suffix,   \* "open_nodraft" | "closed"
    query_edges,           \* the edges of the query not yet turned into pr_data
    current_query_prs_data,
    all_open_prs_overall,
    all_closed_not_merged_prs_overall,
    all_merged_prs_overall,
    split_pc,              \* "idle" | "collect" | "done"
    \* ---- main1: the record count of one query against the 1000 cap ----
    cap_len,               \* len(current_query_prs_data)
    cap_page_count,        \* page_count
    cap_has_next,          \* pageInfo.hasNextPage of the last page received
    cap_requests,          \* number of page requests issued
    cap_pc,                \* "idle" | "run" | "done"
    \* ---- main1: load_settings and what follows it ----
    settings_file,         \* the settings file on disk
    settings_line,         \* lines of the file consumed so far
    GITHUB_TOKEN,          \* the token load_settings took from the first line
    date_ranges_to_process,
    net_requests,          \* number of requests.post calls made
    settings_pc,           \* "idle" | "open" | "lines" | "loaded" | "exited"
    \* ---- the CSV files of the pipeline ----
    fs,                    \* per path, the scripts that wrote it, in order
    script_runs,           \* the scripts run so far
    files_pc,              \* "idle" | "run"
    \* ---- the commit a script takes as a pull request's first ----
    first_script,          \* "main3" | "hpr_main1" | "main5" | "hpr_main4"
    api_commits,           \* the commits of the pull request, in API order
    first_commit,          \* the oid taken as the first commit, or NoCommit
    first_pc               \* "idle" | "fetch" | "done"

push_vars == <<variant, commits, sorted_commits, idx, commit_groups,
               current_group, sha_to_push_date_map, push_pc>>

rev_vars == <<df, rev_file, norev_file, analysis, rev_pc>>

fetch_vars == <<fetcher, pages, requests, sleeps, cursor, page_count, attempt, acc,
                active, last_exception, total_found, ret, fetch_pc>>

batch_vars == <<script, column_in_header, in_rows, row_num, processed_rows, printed, batch_sleeps,
                calls, out_file, batch_pc>>

agg_vars == <<agg_df, agg_once, agg_twice, agg_pc>>

split_vars == <<current_file_suffix, query_edges, current_query_prs_data,
                all_open_prs_overall, all_closed_not_merged_prs_overall,
                all_merged_prs_overall, split_pc>>

cap_vars == <<cap_len, cap_page_count, cap_has_next, cap_requests, cap_pc>>

settings_vars == <<settings_file, settings_line, GITHUB_TOKEN, date_ranges_to_process,
                   net_requests, settings_pc>>

files_vars == <<fs, script_runs, files_pc>>

first_vars == <<first_script, api_commits, first_commit, first_pc>>

more_vars == <<settings_vars, files_vars, first_vars>>

\* the parts other than the push dates, the classifier and the fetchers
ext_vars == <<batch_vars, agg_vars, split_vars, cap_vars, more_vars>>

vars == <<push_vars, rev_vars, fetch_vars, ext_vars>>

-----------------------------------------------------------------------------
(* Bounds of the model *)

MaxCommits == 3
MaxIrregular == 1
MaxRows == 4
MaxPRs == 2
MaxPages == 2
MaxPerPage == 1
MaxFaults == 3
MaxBatchRows == 2
MaxAggRows == 2
MaxAggPRs == 2
MaxEdges == 2
MaxCapPages == 22
MaxSettingsLines == 2
MaxNetRequests == 2
MaxApiCommits == 3
MaxCommitDates == 3
MaxScriptRuns == 3

-----------------------------------------------------------------------------
(* Commit records as the REST API returns them.                            *)
(*   sha       : a sha string, or Absent                                   *)
(*   committer : "obj" | "null" | "absent"  (commit['commit']['committer']) *)
(*   email     : an e-mail string, "" , Null or Absent                     *)
(*   date      : [kind, t]; kind "iso" is a "YYYY-MM-DDTHH:MM:SSZ" string   *)
(*               denoting second t (the API's fixed-width UTC format, whose *)
(*               string order is the order of t); "empty" is '', "null" is  *)
(*               None, "absent" is a missing key.                          *)

Absent == "<absent>"
Null == "<null>"

PushWindowSeconds == 300

Emails == {"a@x", "b@x"}
Times == {0, PushWindowSeconds, 2 * PushWindowSeconds - 1}

IsoDate(t) == [kind |-> "iso", t |-> t]
NoDate(k) == [kind |-> k, t |-> 0]

ShaOf(i) == "sha" \o ToString(i)

CompleteCommits(i) ==
    {[sha |-> ShaOf(i), committer |-> "obj", email |-> e, date |-> IsoDate(t)] :
        e \in Emails, t \in Times}

IrregularCommits(i) ==
    {[sha |-> Absent, committer |-> "obj", email |-> e, date |-> IsoDate(t)] :
        e \in Emails, t \in Times}
    \cup {[sha |-> ShaOf(i), committer |-> k, email |-> Absent, date |-> NoDate("absent")] :
        k \in {"null", "absent"}}
    \cup {[sha |-> ShaOf(i), committer |-> "obj", email |-> e, date |-> IsoDate(t)] :
        e \in {Absent, Null, ""}, t \in Times}
    \cup {[sha |-> ShaOf(i), committer |-> "obj", email |-> e, date |-> NoDate(k)] :
        e \in Emails, k \in {"absent", "null", "empty"}}

Irregular(c) ==
    \/ c.sha = Absent
    \/ c.committer # "obj"
    \/ c.email \notin Emails
    \/ c.date.kind # "iso"

RECURSIVE CountIrregular(_)
CountIrregular(cs) ==
    IF cs = <<>> THEN 0
    ELSE (IF Irregular(Head(cs)) THEN 1 ELSE 0) + CountIrregular(Tail(cs))

Abs(x) == IF x < 0 THEN -x ELSE x

Last(s) == s[Len(s)]

-----------------------------------------------------------------------------
(* sorted(commits, key=lambda c: c['commit']['committer']['date'])         *)

\* the key lambda raises KeyError / TypeError
SortKeyRaises(c) == c.committer # "obj" \/ c.date.kind = "absent"

\* str < str on the fixed-width dates; '' sorts before every date
DateKeyLess(d1, d2) ==
    \/ d1.kind = "empty" /\ d2.kind = "iso"
    \/ d1.kind = "iso" /\ d2.kind = "iso" /\ d1.t < d2.t

\* comparing None with a str or with None raises TypeError; every element of
\* a list of two or more takes part in a comparison
SortRaises(cs) ==
    \/ \E i \in 1..Len(cs) : SortKeyRaises(cs[i])
    \/ Len(cs) >= 2 /\ \E i \in 1..Len(cs) : cs[i].date.kind = "null"

\* stable insertion: c goes after every element whose key is not greater
RECURSIVE InsertByDate(_, _)
InsertByDate(c, s) ==
    IF s = <<>> THEN <<c>>
    ELSE IF DateKeyLess(c.date, Head(s).date) THEN <<c>> \o s
    ELSE <<Head(s)>> \o InsertByDate(c, Tail(s))

RECURSIVE StableSortByDate(_)
StableSortByDate(cs) ==
    IF cs = <<>> THEN <<>>
    ELSE InsertByDate(Last(cs), StableSortByDate(SubSeq(cs, 1, Len(cs) - 1)))

\* mutant: the list is walked in the order the API returned it
SortedCommitsAsReturned(cs) == cs

\* the try/except around sorted(): on an exception the list is used unsorted
SortedCommits(cs) == IF SortRaises(cs) THEN cs ELSE StableSortByDate(cs)

-----------------------------------------------------------------------------
(* The loop body of _calculate_inferred_push_dates                         *)

Falsy(v) == v \in {Absent, Null, ""}

\* add-push-date.py: the `continue` guard, written with .get() truthiness
SkipApr(c) ==
    \/ c.committer # "obj"
    \/ Falsy(c.email)
    \/ c.date.kind # "iso"

\* analytics-accept-rate.py: the `continue` guard, written with `in`
SkipAnalytics(c) ==
    \/ c.committer = "absent"
    \/ c.committer = "obj" /\ (c.email = Absent \/ c.date.kind = "absent")

\* analytics-accept-rate.py: `k in None` raises TypeError; a None or '' date
\* reaches .replace() / fromisoformat() and raises
RaisesAnalytics(c) ==
    \/ c.committer = "null"
    \/ c.committer = "obj" /\ c.email # Absent /\ c.date.kind \in {"null", "empty"}

Skips(v, c) == IF v = "apr" THEN SkipApr(c) ELSE SkipAnalytics(c)
Raises(v, c) == IF v = "apr" THEN FALSE ELSE RaisesAnalytics(c)

\* mutant: the committer email is not compared
SameGroupAnyEmail(c, last_commit) ==
    Abs(c.date.t - last_commit.date.t) < PushWindowSeconds

\* mutant: a gap of exactly 300 seconds still joins the group
SameGroupInclusive(c, last_commit) ==
    /\ c.email = last_commit.email
    /\ Abs(c.date.t - last_commit.date.t) <= PushWindowSeconds

\* the grouping condition: same committer email and |gap| < 300 seconds
SameGroup(c, last_commit) ==
    /\ c.email = last_commit.email
    /\ Abs(c.date.t - last_commit.date.t) < PushWindowSeconds

\* the dict built from a list of groups; a later assignment overwrites
RECURSIVE GroupMap(_, _)
GroupMap(group, push_date) ==
    IF group = <<>> THEN <<>>
    ELSE LET c == Head(group)
             rest == GroupMap(Tail(group), push_date)
         IN IF c.sha = Absent THEN rest
            ELSE rest @@ (c.sha :> push_date)

RECURSIVE BuildMap(_)
BuildMap(groups) ==
    IF groups = <<>> THEN <<>>
    ELSE LET g == Last(groups)
         IN GroupMap(g, Last(g).date.t)
            @@ BuildMap(SubSeq(groups, 1, Len(groups) - 1))

\* the for loop over sorted_commits and the closing of the last group, as a
\* function of the list still to walk: the groups, or the exception raised
RECURSIVE GroupLoop(_, _, _, _)
GroupLoop(v, cs, groups, group) ==
    IF cs = <<>>
    THEN [raised |-> FALSE,
          groups |-> IF group # <<>> THEN Append(groups, group) ELSE groups]
    ELSE LET commit == Head(cs) IN
         IF Skips(v, commit) THEN GroupLoop(v, Tail(cs), groups, group)
         ELSE IF Raises(v, commit) THEN [raised |-> TRUE, groups |-> <<>>]
         ELSE IF group = <<>> THEN GroupLoop(v, Tail(cs), groups, <<commit>>)
         ELSE IF SameGroup(commit, Last(group))
         THEN GroupLoop(v, Tail(cs), groups, Append(group, commit))
         ELSE GroupLoop(v, Tail(cs), Append(groups, group), <<commit>>)

\* _calculate_inferred_push_dates(cs) of copy v: the groups and the map
\* returned, or the exception raised
CalculateInferredPushDates(v, cs) ==
    IF cs = <<>> THEN [raised |-> FALSE, groups |-> <<>>, map |-> <<>>]
    ELSE LET walked == GroupLoop(v, SortedCommits(cs), <<>>, <<>>) IN
         [raised |-> walked.raised,
          groups |-> walked.groups,
          map |-> BuildMap(walked.groups)]

-----------------------------------------------------------------------------
(* Actions: the caller accumulates the commit list, then the function runs *)

PushInit ==
    /\ variant \in {"apr", "analytics"}
    /\ commits = <<>>
    /\ sorted_commits = <<>>
    /\ idx = 0
    /\ commit_groups = <<>>
    /\ current_group = <<>>
    /\ sha_to_push_date_map = <<>>
    /\ push_pc = "fetch"

\* all_commits_summary.extend(res.json()): one more commit arrives
FetchCommit ==
    /\ push_pc = "fetch"
    /\ Len(commits) < MaxCommits
    /\ \E c \in CompleteCommits(Len(commits) + 1) \cup IrregularCommits(Len(commits) + 1) :
          /\ CountIrregular(Append(commits, c)) <= MaxIrregular
          /\ commits' = Append(commits, c)
    /\ UNCHANGED <<variant, sorted_commits, idx, commit_groups, current_group,
                   sha_to_push_date_map, push_pc>>
    /\ UNCHANGED <<rev_vars, fetch_vars, ext_vars>>

\* entry of the function: the empty-list return, else the sort
CallSort ==
    /\ push_pc = "fetch"
    /\ IF commits = <<>>
       THEN /\ push_pc' = "done"
            /\ UNCHANGED <<sorted_commits, idx>>
       ELSE /\ sorted_commits' = SortedCommits(commits)
            /\ idx' = 1
            /\ push_pc' = "loop"
    /\ UNCHANGED <<variant, commits, commit_groups, current_group, sha_to_push_date_map>>
    /\ UNCHANGED <<rev_vars, fetch_vars, ext_vars>>

\* one iteration of `for commit in sorted_commits`
LoopStep ==
    /\ push_pc = "loop"
    /\ idx <= Len(sorted_commits)
    /\ LET commit == sorted_commits[idx] IN
         IF Skips(variant, commit)
         THEN /\ idx' = idx + 1
              /\ UNCHANGED <<commit_groups, current_group, push_pc>>
         ELSE IF Raises(variant, commit)
         THEN /\ push_pc' = "raised"
              /\ UNCHANGED <<idx, commit_groups, current_group>>
         ELSE /\ idx' = idx + 1
              /\ push_pc' = push_pc
              /\ IF current_group = <<>>
                 THEN /\ current_group' = <<commit>>
                      /\ UNCHANGED commit_groups
                 ELSE IF SameGroup(commit, Last(current_group))
                 THEN /\ current_group' = Append(current_group, commit)
                      /\ UNCHANGED commit_groups
                 ELSE /\ commit_groups' = Append(commit_groups, current_group)
                      /\ current_group' = <<commit>>
    /\ UNCHANGED <<variant, commits, sorted_commits, sha_to_push_date_map>>
    /\ UNCHANGED <<rev_vars, fetch_vars, ext_vars>>

\* after the loop: the last group is closed and the dict is built and returned
FinishAndBuildMap ==
    /\ push_pc = "loop"
    /\ idx > Len(sorted_commits)
    /\ LET groups == IF current_group # <<>>
                     THEN Append(commit_groups, current_group)
                     ELSE commit_groups
       IN /\ commit_groups' = groups
          /\ sha_to_push_date_map' = BuildMap(groups)
    /\ push_pc' = "done"
    /\ UNCHANGED <<variant, commits, sorted_commits, idx, current_group>>
    /\ UNCHANGED <<rev_vars, fetch_vars, ext_vars>>

PushNext == FetchCommit \/ CallSort \/ LoopStep \/ FinishAndBuildMap

PushIdle ==
    /\ variant = "apr"
    /\ commits = <<>>
    /\ sorted_commits = <<>>
    /\ idx = 0
    /\ commit_groups = <<>>
    /\ current_group = <<>>
    /\ sha_to_push_date_map = <<>>
    /\ push_pc = "idle"

-----------------------------------------------------------------------------
(* The revision classifier: extract_prs_with_revision and                  *)
(* extract_prs_without_revision of main8, analyze_final_data of            *)
(* analytics-accept-rate.  A row is one commit: the key of its pull        *)
(* request (owner, repo_name, pull_number) and its Is_first_commit flag.   *)

PRKeys == 1..MaxPRs

Rows == [pr : PRKeys, Is_first_commit : BOOLEAN]

\* the groups of df.groupby(['owner', 'repo_name', 'pull_number'])
GroupKeys(d) == {d[i].pr : i \in 1..Len(d)}

GroupRows(d, k) == {i \in 1..Len(d) : d[i].pr = k}

\* agg 'count' and 'sum' of Is_first_commit
TotalCommits(d, k) == Cardinality(GroupRows(d, k))
FirstCommitCount(d, k) == Cardinality({i \in GroupRows(d, k) : d[i].Is_first_commit})

\* Condition 1: pr_groups.all()
Condition1Keys(d) ==
    {k \in GroupKeys(d) : \A i \in GroupRows(d, k) : d[i].Is_first_commit}

\* mutant: the total_commits == 1 test is lost
Condition2KeysAnyCount(d) ==
    {k \in GroupKeys(d) : FirstCommitCount(d, k) = 0}

\* Condition 2: first_commit_count == 0 and total_commits == 1
Condition2Keys(d) ==
    {k \in GroupKeys(d) : FirstCommitCount(d, k) = 0 /\ TotalCommits(d, k) = 1}

\* mutants: one of the two conditions is left out of the union
AllNoRevisionKeysCondition1Only(d) == Condition1Keys(d)
AllNoRevisionKeysCondition2Only(d) == Condition2Keys(d)

\* all_no_revision_pr_keys
AllNoRevisionKeys(d) == Condition1Keys(d) \cup Condition2Keys(d)

\* mutant: the no-revision keys are not subtracted
RevisionKeysNotSubtracted(d) == GroupKeys(d)

\* revision_pr_keys = all_pr_keys - all_no_revision_pr_keys
RevisionKeys(d) == GroupKeys(d) \ AllNoRevisionKeys(d)

NoFile == [created |-> FALSE, rows |-> <<>>]

\* result_df of the with-revision output: per key, revision_commit
WithRevisionRows(d) ==
    [k \in RevisionKeys(d) |-> TotalCommits(d, k) - FirstCommitCount(d, k)]

\* result_df of the no-revision output: per key, initial_commit
WithoutRevisionRows(d) ==
    [k \in AllNoRevisionKeys(d) |-> TotalCommits(d, k)]

RevInit ==
    /\ df = <<>>
    /\ rev_file = NoFile
    /\ norev_file = NoFile
    /\ analysis = [ran |-> FALSE, no_revision_prs |-> {},
                   no_mod_merged_count |-> 0, with_mod_merged_count |-> 0]
    /\ rev_pc = "load"

RevIdle ==
    /\ df = <<>>
    /\ rev_file = NoFile
    /\ norev_file = NoFile
    /\ analysis = [ran |-> FALSE, no_revision_prs |-> {},
                   no_mod_merged_count |-> 0, with_mod_merged_count |-> 0]
    /\ rev_pc = "idle"

\* one more commit row of the MERGED table
ReadRow ==
    /\ rev_pc = "load"
    /\ Len(df) < MaxRows
    /\ \E r \in Rows : df' = Append(df, r)
    /\ UNCHANGED <<rev_file, norev_file, analysis, rev_pc>>
    /\ UNCHANGED <<push_vars, fetch_vars, ext_vars>>

\* process_dataset, first call: extract_prs_with_revision(merged_df, ...)
ExtractPrsWithRevision ==
    /\ rev_pc = "load"
    /\ rev_file' = IF RevisionKeys(df) = {} THEN NoFile
                   ELSE [created |-> TRUE, rows |-> WithRevisionRows(df)]
    /\ rev_pc' = "rev_done"
    /\ UNCHANGED <<df, norev_file, analysis>>
    /\ UNCHANGED <<push_vars, fetch_vars, ext_vars>>

\* process_dataset, second call: extract_prs_without_revision(merged_df, ...)
ExtractPrsWithoutRevision ==
    /\ rev_pc = "rev_done"
    /\ norev_file' = IF AllNoRevisionKeys(df) = {} THEN NoFile
                     ELSE [created |-> TRUE, rows |-> WithoutRevisionRows(df)]
    /\ rev_pc' = "done"
    /\ UNCHANGED <<df, rev_file, analysis>>
    /\ UNCHANGED <<push_vars, fetch_vars, ext_vars>>

\* analyze_final_data on the same rows: the no-revision set and the counts
AnalyzeFinalData ==
    /\ rev_pc = "load"
    /\ analysis' =
          IF GroupKeys(df) = {} THEN analysis
          ELSE [ran |-> TRUE,
                no_revision_prs |-> Condition1Keys(df) \cup Condition2Keys(df),
                no_mod_merged_count |->
                    Cardinality(Condition1Keys(df) \cup Condition2Keys(df)),
                with_mod_merged_count |->
                    Cardinality(GroupKeys(df))
                    - Cardinality(Condition1Keys(df) \cup Condition2Keys(df))]
    /\ rev_pc' = "analyzed"
    /\ UNCHANGED <<df, rev_file, norev_file>>
    /\ UNCHANGED <<push_vars, fetch_vars, ext_vars>>

RevNext ==
    \/ ReadRow
    \/ ExtractPrsWithRevision
    \/ ExtractPrsWithoutRevision
    \/ AnalyzeFinalData

-----------------------------------------------------------------------------
(* The paginated fetchers and their retry loops.                           *)
(*   main1     - the search pagination loop of APR/main1_get_data.py        *)
(*   main3     - get_pr_commit_shas_sorted over run_graphql_query           *)
(*   main5     - get_all_pr_commits_data of APR/main5                       *)
(*   hpr_main4 - get_all_pr_commits_data of HPR/main4                       *)
(*   hpr_main1 - one call of fetch_github_data_graphql of HPR/main1         *)
(* The source holds a list of pages; page i reports hasNextPage exactly    *)
(* when a page i+1 exists and its endCursor is i.  A request carrying      *)
(* cursor c is answered with page c+1, or with a failure.                  *)

Fetchers == {"main1", "main3", "main5", "hpr_main4", "hpr_main1"}

MAX_RETRIES == 3
INITIAL_RETRY_DELAY == 2
SearchApiLimit == 1000
MinStars == 10
GraphqlAttempts == 3
RateLimitWait == 60
RetryWaitUnit == 10
PageDelay == 1
HprRetryWaitUnit == 5

NoCursor == 0

\* what the transport can answer to one request
Answers == {"ok", "s500", "s401", "s403", "timeout", "rate_limited"}

\* the attributes of a record that the fetcher reads
RecordKinds(f) ==
    IF f = "main1" THEN {[stars |-> MinStars - 1, authoredDate |-> 0],
                         [stars |-> MinStars, authoredDate |-> 0]}
    ELSE IF f = "main3" THEN {[stars |-> 0, authoredDate |-> 1],
                              [stars |-> 0, authoredDate |-> 2]}
    ELSE {[stars |-> 0, authoredDate |-> 0]}

PageShapes(f) == UNION {[1..m -> RecordKinds(f)] : m \in 0..MaxPerPage}

\* a page is full unless it is the last one, which holds at least one record
\* when it is not the only one
SourceShapes(f) ==
    UNION {{src \in [1..n -> PageShapes(f)] :
               \A i \in 1..n :
                   /\ (i < n => Len(src[i]) = MaxPerPage)
                   /\ (n > 1 => Len(src[i]) >= 1)} :
           n \in 1..MaxPages}

MakePages(src) ==
    [i \in 1..Len(src) |->
        [j \in 1..Len(src[i]) |->
            [id |-> (i - 1) * MaxPerPage + j,
             stars |-> src[i][j].stars,
             authoredDate |-> src[i][j].authoredDate]]]

\* the page a request with cursor c is answered with
PageAt(c) == IF c + 1 <= Len(pages) THEN pages[c + 1] ELSE <<>>
HasNextPage(c) == c + 1 < Len(pages)
EndCursor(c) == c + 1

RECURSIVE TotalRecords(_)
TotalRecords(ps) == IF ps = <<>> THEN 0 ELSE Len(Head(ps)) + TotalRecords(Tail(ps))

FaultsUsed == Cardinality({i \in 1..Len(requests) : requests[i].answer # "ok"})

RECURSIVE Pow(_, _)
Pow(b, e) == IF e = 0 THEN 1 ELSE b * Pow(b, e - 1)

Pending == [kind |-> "pending", records |-> <<>>]
Returned(recs) == [kind |-> "list", records |-> recs]
ReturnedNone == [kind |-> "none", records |-> <<>>]
Raised == [kind |-> "raised", records |-> <<>>]
ReturnedErrors == [kind |-> "errors", records |-> <<>>]

FetchInit ==
    /\ fetcher \in Fetchers
    /\ \E src \in SourceShapes(fetcher) : pages = MakePages(src)
    /\ requests = <<>>
    /\ sleeps = <<>>
    /\ cursor = NoCursor
    /\ page_count = IF fetcher \in {"main5", "hpr_main4"} THEN 1 ELSE 0
    /\ attempt = 0
    /\ acc = <<>>
    /\ active = TRUE
    /\ last_exception = FALSE
    /\ total_found = 0
    /\ ret = Pending
    /\ fetch_pc = "run"

FetchIdle ==
    /\ fetcher = "main1"
    /\ pages = <<>>
    /\ requests = <<>>
    /\ sleeps = <<>>
    /\ cursor = NoCursor
    /\ page_count = 0
    /\ attempt = 0
    /\ acc = <<>>
    /\ active = TRUE
    /\ last_exception = FALSE
    /\ total_found = 0
    /\ ret = Pending
    /\ fetch_pc = "idle"

\* ---- main1: one attempt of the retry loop, and what follows the loop ----

\* mutant: the loop gives up one attempt early
Main1MayRetryTwoAttempts(a) == a < MAX_RETRIES - 2

\* `attempt < MAX_RETRIES - 1`
Main1MayRetry(a) == a < MAX_RETRIES - 1

\* the edges of a page that pass the filter (stars >= 10), added up to the cap
RECURSIVE Main1AddEdges(_, _)
Main1AddEdges(data, edges) ==
    IF edges = <<>> \/ Len(data) >= SearchApiLimit THEN data
    ELSE Main1AddEdges(
            IF Head(edges).stars < MinStars THEN data ELSE Append(data, Head(edges)),
            Tail(edges))

\* lines 244-307: a page was received and the loop is active.  The test of
\* the cap at the top of the loop (line 181) cannot succeed: the loop is
\* re-entered only when line 304 found fewer than 1000 records.
Main1ProcessPage(pc1) ==
    LET edges == PageAt(cursor)
        hasNext == HasNextPage(cursor)
        total == IF pc1 = 1 THEN TotalRecords(pages) ELSE total_found
        act1 == ~(pc1 = 1 /\ total = 0)
        act2 == act1 /\ ~(edges = <<>> /\ total = 0 /\ pc1 = 1)
        act3 == act2 /\ ~(edges = <<>> /\ pc1 > 1 /\ ~hasNext)
        data == Main1AddEdges(acc, edges)
        advance == hasNext /\ Len(data) < SearchApiLimit
    IN [acc |-> data,
        total_found |-> total,
        cursor |-> IF advance THEN EndCursor(cursor) ELSE cursor,
        active |-> act3 /\ advance,
        exit |-> ~(act3 /\ advance)]

\* mutant: the test of the status code 401 is missing
Main1IsAuthErrorNever(r) == FALSE

\* `response.status_code == 401`
Main1IsAuthError(r) == r = "s401"

\* lines 196-242 for answer r to the current attempt, then lines 244-307
Main1Step(r) ==
    LET a == attempt
        pc1 == IF a = 0 THEN page_count + 1 ELSE page_count
        keep == [acc |-> acc, total_found |-> total_found, cursor |-> cursor,
                 active |-> active, exit |-> TRUE]
        Retry(exc) == [loop |-> "retry", exc |-> exc, page |-> keep,
                       sleeps |-> Append(sleeps, Pow(INITIAL_RETRY_DELAY, a + 1))]
        Break(act, exc, gotData) ==
            [loop |-> "break", exc |-> exc, sleeps |-> sleeps,
             page |-> IF ~act THEN [keep EXCEPT !.active = FALSE]
                      ELSE IF exc THEN [keep EXCEPT !.active = FALSE]
                      ELSE IF ~gotData THEN keep
                      ELSE Main1ProcessPage(pc1)]
    IN CASE r = "s500" ->
                IF Main1MayRetry(a) THEN Retry(last_exception)
                ELSE Break(active, last_exception, FALSE)
         [] Main1IsAuthError(r) -> Break(FALSE, last_exception, FALSE)
         [] r = "rate_limited" -> Break(FALSE, FALSE, TRUE)
         [] r = "ok" -> Break(active, FALSE, TRUE)
         [] OTHER ->
                IF Main1MayRetry(a) /\ active THEN Retry(TRUE)
                ELSE Break(active, TRUE, FALSE)

Main1Attempt ==
    /\ fetch_pc = "run"
    /\ fetcher = "main1"
    /\ \E r \in Answers :
          /\ r # "ok" => FaultsUsed < MaxFaults
          /\ LET nx == Main1Step(r) IN
             /\ requests' = Append(requests,
                    [after |-> cursor, attempt |-> attempt, answer |-> r])
             /\ page_count' = IF attempt = 0 THEN page_count + 1 ELSE page_count
             /\ sleeps' = nx.sleeps
             /\ acc' = nx.page.acc
             /\ total_found' = nx.page.total_found
             /\ cursor' = nx.page.cursor
             /\ active' = nx.page.active
             /\ IF nx.loop = "retry"
                THEN /\ attempt' = attempt + 1
                     /\ last_exception' = nx.exc
                     /\ UNCHANGED <<ret, fetch_pc>>
                ELSE IF ~nx.page.exit
                THEN \* the next page: lines 193-195 reset the attempt's state
                     /\ attempt' = 0
                     /\ last_exception' = FALSE
                     /\ UNCHANGED <<ret, fetch_pc>>
                ELSE /\ attempt' = attempt
                     /\ last_exception' = nx.exc
                     /\ ret' = Returned(nx.page.acc)
                     /\ fetch_pc' = "done"
    /\ UNCHANGED <<fetcher, pages>>
    /\ UNCHANGED <<push_vars, rev_vars, ext_vars>>

\* ---- main3: run_graphql_query inside get_pr_commit_shas_sorted ----

\* `attempt == 2`, the last iteration of range(3)
Main3LastAttempt(a) == a = GraphqlAttempts - 1

\* all_commits_info.sort(key=authoredDate), stable
RECURSIVE InsertByAuthoredDate(_, _)
InsertByAuthoredDate(c, s) ==
    IF s = <<>> THEN <<c>>
    ELSE IF c.authoredDate < Head(s).authoredDate THEN <<c>> \o s
    ELSE <<Head(s)>> \o InsertByAuthoredDate(c, Tail(s))

RECURSIVE SortByAuthoredDate(_)
SortByAuthoredDate(cs) ==
    IF cs = <<>> THEN <<>>
    ELSE InsertByAuthoredDate(Last(cs), SortByAuthoredDate(SubSeq(cs, 1, Len(cs) - 1)))

Main3Attempt ==
    /\ fetch_pc = "run"
    /\ fetcher = "main3"
    /\ \E r \in Answers :
          /\ r # "ok" => FaultsUsed < MaxFaults
          /\ requests' = Append(requests,
                 [after |-> cursor, attempt |-> attempt, answer |-> r])
          /\ IF r = "ok"
             THEN \* the query returns; the caller takes the page
                  /\ acc' = acc \o PageAt(cursor)
                  /\ sleeps' = sleeps
                  /\ attempt' = 0
                  /\ IF HasNextPage(cursor)
                     THEN /\ cursor' = EndCursor(cursor)
                          /\ UNCHANGED <<ret, fetch_pc>>
                     ELSE /\ cursor' = cursor
                          /\ ret' = Returned(SortByAuthoredDate(acc \o PageAt(cursor)))
                          /\ fetch_pc' = "done"
             ELSE IF r = "rate_limited"
             THEN /\ sleeps' = Append(sleeps, RateLimitWait * (attempt + 1))
                  /\ UNCHANGED <<acc, cursor>>
                  /\ IF ~Main3LastAttempt(attempt)
                     THEN /\ attempt' = attempt + 1
                          /\ UNCHANGED <<ret, fetch_pc>>
                     ELSE /\ attempt' = attempt
                          /\ ret' = Raised
                          /\ fetch_pc' = "done"
             ELSE \* HTTPError, ReadTimeout: a RequestException
                  /\ UNCHANGED <<acc, cursor>>
                  /\ IF Main3LastAttempt(attempt)
                     THEN /\ attempt' = attempt
                          /\ sleeps' = sleeps
                          /\ ret' = Raised
                          /\ fetch_pc' = "done"
                     ELSE /\ attempt' = attempt + 1
                          /\ sleeps' = Append(sleeps, RetryWaitUnit * (attempt + 1))
                          /\ UNCHANGED <<ret, fetch_pc>>
    /\ UNCHANGED <<fetcher, pages, page_count, active, last_exception, total_found>>
    /\ UNCHANGED <<push_vars, rev_vars, ext_vars>>

\* ---- get_all_pr_commits_data ----

\* HPR/main4: GRAPHQL_ENDPOINT is defined, the request is sent
HprMain4Request ==
    /\ fetch_pc = "run"
    /\ fetcher = "hpr_main4"
    /\ \E r \in Answers :
          /\ r # "ok" => FaultsUsed < MaxFaults
          /\ requests' = Append(requests,
                 [after |-> cursor, attempt |-> 0, answer |-> r])
          /\ IF r = "ok"
             THEN LET total == IF page_count = 1 THEN TotalRecords(pages)
                               ELSE total_found
                  IN /\ total_found' = total
                     /\ IF page_count = 1 /\ total = 0
                        THEN /\ ret' = Returned(<<>>)
                             /\ fetch_pc' = "done"
                             /\ UNCHANGED <<acc, active, cursor, page_count, sleeps>>
                        ELSE /\ acc' = acc \o PageAt(cursor)
                             /\ active' = HasNextPage(cursor)
                             /\ cursor' = EndCursor(cursor)
                             /\ page_count' = page_count + 1
                             /\ sleeps' = Append(sleeps, PageDelay)
                             /\ IF HasNextPage(cursor)
                                THEN UNCHANGED <<ret, fetch_pc>>
                                ELSE /\ ret' = Returned(acc \o PageAt(cursor))
                                     /\ fetch_pc' = "done"
             ELSE IF r \in {"rate_limited", "s403"}
             THEN \* sleep 60 and `continue`: the same page again
                  /\ sleeps' = Append(sleeps, RateLimitWait)
                  /\ UNCHANGED <<acc, active, cursor, page_count, total_found, ret, fetch_pc>>
             ELSE \* any other HTTPError or RequestException: return None
                  /\ ret' = ReturnedNone
                  /\ fetch_pc' = "done"
                  /\ UNCHANGED <<acc, active, cursor, page_count, total_found, sleeps>>
    /\ UNCHANGED <<fetcher, pages, attempt, last_exception>>
    /\ UNCHANGED <<push_vars, rev_vars, ext_vars>>

\* APR/main5: the name GRAPHQL_ENDPOINT is not defined in the module (it
\* defines GRAPHQL_URL); evaluating the argument of requests.post raises
\* NameError before any request, `except Exception` returns None
Main5Request ==
    /\ fetch_pc = "run"
    /\ fetcher = "main5"
    /\ ret' = ReturnedNone
    /\ fetch_pc' = "done"
    /\ UNCHANGED <<fetcher, pages, requests, sleeps, cursor, page_count, attempt, acc,
                   active, last_exception, total_found>>
    /\ UNCHANGED <<push_vars, rev_vars, ext_vars>>

\* ---- HPR/main1: one call of fetch_github_data_graphql ----

\* `attempt < 2`
HprMain1MayRetry(a) == a < GraphqlAttempts - 1

HprMain1Attempt ==
    /\ fetch_pc = "run"
    /\ fetcher = "hpr_main1"
    /\ \E r \in Answers :
          /\ r # "ok" => FaultsUsed < MaxFaults
          /\ requests' = Append(requests,
                 [after |-> cursor, attempt |-> attempt, answer |-> r])
          /\ IF r = "ok"
             THEN \* return response.json()
                  /\ ret' = Returned(PageAt(cursor))
                  /\ fetch_pc' = "done"
                  /\ UNCHANGED <<sleeps, attempt>>
             ELSE IF r = "rate_limited"
             THEN \* status 200: the body with its errors array is returned
                  /\ ret' = ReturnedErrors
                  /\ fetch_pc' = "done"
                  /\ UNCHANGED <<sleeps, attempt>>
             ELSE IF r = "timeout"
             THEN \* sleeps after every attempt; the loop ends after the third
                  /\ sleeps' = Append(sleeps, HprRetryWaitUnit * (attempt + 1))
                  /\ IF attempt + 1 < GraphqlAttempts
                     THEN /\ attempt' = attempt + 1
                          /\ UNCHANGED <<ret, fetch_pc>>
                     ELSE /\ attempt' = attempt
                          /\ ret' = ReturnedNone
                          /\ fetch_pc' = "done"
             ELSE \* HTTPError of raise_for_status (500, 401, 403)
                  IF HprMain1MayRetry(attempt)
                  THEN /\ sleeps' = Append(sleeps, HprRetryWaitUnit * (attempt + 1))
                       /\ attempt' = attempt + 1
                       /\ UNCHANGED <<ret, fetch_pc>>
                  ELSE /\ ret' = Raised
                       /\ fetch_pc' = "done"
                       /\ UNCHANGED <<sleeps, attempt>>
    /\ UNCHANGED <<fetcher, pages, cursor, page_count, acc, active, last_exception,
                   total_found>>
    /\ UNCHANGED <<push_vars, rev_vars, ext_vars>>

FetchNext ==
    Main1Attempt \/ Main3Attempt \/ HprMain4Request \/ Main5Request \/ HprMain1Attempt

-----------------------------------------------------------------------------
(* The row loops of the batch scripts.                                      *)
(*   apr_main4, hpr_main3 - the first-commit scripts (__main__)             *)
(*   main3                - APR/main3 main() / analyze_pr_from_csv_row      *)
(*   add_author_info, add_pr_created_date, add_state, add_pr_times - the    *)
(*                          add-column scripts, for a file that lacks or    *)
(*                          has the column (column_in_header)               *)
(*   unique_author        - analyze_unique_prs_by_repo_and_author           *)
(*   main2                - the sampling loop of                            *)
(*                          create_final_sampled_output_v5                  *)
(* Each script reads its input rows in order; a row that needs the API is   *)
(* answered by the transport with one of the answers the script tells apart *)

FirstCommitScripts == {"apr_main4", "hpr_main3"}
AddColumnScripts == {"add_author_info", "add_pr_created_date", "add_state"}
\* add-pr-times.py adds three columns and has no check for them
ColumnAdders == AddColumnScripts \cup {"add_pr_times"}
BatchScripts ==
    FirstCommitScripts \cup ColumnAdders \cup {"main3", "unique_author", "main2"}

\* sleeps, in tenths of a second
RateLimitSleepTenths == 600
FirstCommitDelayTenths == 15
Main3RowDelayTenths == 10
AddColumnDelayTenths == 1

\* what a row of the input can look like to the script that reads it
RowShapes(sc) ==
    IF sc = "main2"
    THEN [info : {"ok", "invalid_count", "nonpositive_count"},
          pool : {"some", "none", "no_url_column"}]
    ELSE [info : {"ok", "missing", "invalid_number"}, pool : {"na"}]

InputShapes(sc) == UNION {[1..n -> RowShapes(sc)] : n \in 0..MaxBatchRows}

MakeRows(shape) ==
    [i \in 1..Len(shape) |-> [id |-> i, info |-> shape[i].info, pool |-> shape[i].pool]]

NoOutput == [written |-> FALSE, rows |-> <<>>]

\* main3 opens the output file and writes the header before the loop
OpenedOutput == [written |-> TRUE, rows |-> <<>>]

BatchInit ==
    /\ script \in BatchScripts
    /\ column_in_header \in (IF script \in ColumnAdders THEN BOOLEAN ELSE {FALSE})
    /\ \E shape \in InputShapes(script) : in_rows = MakeRows(shape)
    /\ row_num = 0
    /\ processed_rows = <<>>
    /\ printed = <<>>
    /\ batch_sleeps = <<>>
    /\ calls = <<>>
    /\ out_file = IF script = "main3" THEN OpenedOutput ELSE NoOutput
    /\ batch_pc = "run"

BatchIdle ==
    /\ script = "none"
    /\ column_in_header = FALSE
    /\ in_rows = <<>>
    /\ row_num = 0
    /\ processed_rows = <<>>
    /\ printed = <<>>
    /\ batch_sleeps = <<>>
    /\ calls = <<>>
    /\ out_file = NoOutput
    /\ batch_pc = "idle"

CurrentRow == in_rows[row_num + 1]

Say(msg, row) == Append(printed, [msg |-> msg, row |-> row.id])

Call(row, answer) == Append(calls, [row |-> row.id, answer |-> answer])

\* ---- the first-commit scripts ----

FirstCommitAnswers == {"ok", "rate_limited", "s403", "s500", "timeout", "not_found"}

\* what get_pr_first_commit_and_body_data returns
FirstCommitResult(answer) ==
    IF answer \in {"rate_limited", "s403"} THEN "RATE_LIMITED"
    ELSE IF answer = "ok" THEN "data"
    ELSE "None"

FirstCommitRow ==
    /\ batch_pc = "run"
    /\ script \in FirstCommitScripts
    /\ row_num < Len(in_rows)
    /\ LET row == CurrentRow IN
       IF row.info = "missing"
       THEN /\ printed' = Say("missing_info", row)
            /\ row_num' = row_num + 1
            /\ UNCHANGED <<calls, batch_sleeps, processed_rows>>
       ELSE IF row.info = "invalid_number"
       THEN /\ printed' = Say("invalid_pr_number", row)
            /\ row_num' = row_num + 1
            /\ UNCHANGED <<calls, batch_sleeps, processed_rows>>
       ELSE \E answer \in FirstCommitAnswers :
            /\ calls' = Call(row, answer)
            /\ IF FirstCommitResult(answer) = "RATE_LIMITED"
               THEN /\ printed' = Say("skipped_rate_limit", row)
                    /\ batch_sleeps' = Append(batch_sleeps, RateLimitSleepTenths)
                    /\ row_num' = row_num + 1
                    /\ UNCHANGED processed_rows
               ELSE /\ IF FirstCommitResult(answer) = "data"
                       THEN /\ processed_rows' =
                                  Append(processed_rows, [row |-> row.id, value |-> "data"])
                            /\ UNCHANGED printed
                       ELSE /\ printed' = Say("failed_to_retrieve", row)
                            /\ UNCHANGED processed_rows
                    /\ batch_sleeps' = Append(batch_sleeps, FirstCommitDelayTenths)
                    /\ row_num' = row_num + 1
    /\ UNCHANGED <<script, column_in_header, in_rows, out_file, batch_pc>>
    /\ UNCHANGED <<push_vars, rev_vars, fetch_vars, agg_vars, split_vars, cap_vars,
                   more_vars>>

\* after the loop: the file is written when results_list is not empty
FirstCommitFinish ==
    /\ batch_pc = "run"
    /\ script \in FirstCommitScripts
    /\ row_num = Len(in_rows)
    /\ out_file' = IF processed_rows # <<>>
                   THEN [written |-> TRUE, rows |-> processed_rows]
                   ELSE out_file
    /\ batch_pc' = "done"
    /\ UNCHANGED <<script, column_in_header, in_rows, row_num, processed_rows, printed, batch_sleeps, calls>>
    /\ UNCHANGED <<push_vars, rev_vars, fetch_vars, agg_vars, split_vars, cap_vars,
                   more_vars>>

\* ---- APR/main3: main() and analyze_pr_from_csv_row ----

\* how get_pr_commit_shas_sorted ends for one pull request: a list of SHAs,
\* an empty list (NOT_FOUND, or no commits), or an exception raised by
\* run_graphql_query after its last attempt (timeout or server/connection
\* error on every attempt, or RATE_LIMITED on every attempt)
Main3Answers == {"ok", "not_found", "retries_failed", "rate_limit_retries_failed"}

Main3Raises(answer) == answer \in {"retries_failed", "rate_limit_retries_failed"}

Main3Row ==
    /\ batch_pc = "run"
    /\ script = "main3"
    /\ row_num < Len(in_rows)
    /\ LET row == CurrentRow IN
       IF row.info = "missing"
       THEN /\ printed' = Say("missing_info", row)
            /\ row_num' = row_num + 1
            /\ batch_sleeps' = Append(batch_sleeps, Main3RowDelayTenths)
            /\ UNCHANGED <<calls, out_file, batch_pc>>
       ELSE IF row.info = "invalid_number"
       THEN /\ printed' = Say("invalid_pr_number", row)
            /\ row_num' = row_num + 1
            /\ batch_sleeps' = Append(batch_sleeps, Main3RowDelayTenths)
            /\ UNCHANGED <<calls, out_file, batch_pc>>
       ELSE \E answer \in Main3Answers :
            /\ calls' = Call(row, answer)
            /\ IF Main3Raises(answer)
               THEN \* nothing between run_graphql_query and main() catches
                    \* the exception: `except Exception` of main() ends the run
                    /\ printed' = Append(printed, [msg |-> "unexpected_error", row |-> 0])
                    /\ batch_pc' = "aborted"
                    /\ UNCHANGED <<row_num, out_file, batch_sleeps>>
               ELSE /\ IF answer = "not_found"
                       THEN /\ printed' = Say("failed_commit_list", row)
                            /\ out_file' = [out_file EXCEPT !.rows =
                                   Append(@, [row |-> row.id, value |-> "ERROR: No commits found"])]
                       ELSE /\ printed' = Say("analysis_complete", row)
                            /\ out_file' = [out_file EXCEPT !.rows =
                                   Append(@, [row |-> row.id, value |-> "data"])]
                    /\ row_num' = row_num + 1
                    /\ batch_sleeps' = Append(batch_sleeps, Main3RowDelayTenths)
                    /\ UNCHANGED batch_pc
    /\ UNCHANGED <<script, column_in_header, in_rows, processed_rows>>
    /\ UNCHANGED <<push_vars, rev_vars, fetch_vars, agg_vars, split_vars, cap_vars,
                   more_vars>>

Main3Finish ==
    /\ batch_pc = "run"
    /\ script = "main3"
    /\ row_num = Len(in_rows)
    /\ printed' = Append(printed, [msg |-> "all_processing_complete", row |-> 0])
    /\ batch_pc' = "done"
    /\ UNCHANGED <<script, column_in_header, in_rows, row_num, processed_rows, batch_sleeps, calls, out_file>>
    /\ UNCHANGED <<push_vars, rev_vars, fetch_vars, agg_vars, split_vars, cap_vars,
                   more_vars>>

\* ---- the add-column scripts ----

\* the answers to the one query per row: the entity with its value, a
\* response with an errors array (NOT_FOUND, RATE_LIMITED), a request error,
\* or a response without errors in which pullRequest, the author or the
\* value is null; for add-pr-times, whose chain ends at pullRequest, also one
\* in which repository is null
AddColumnAnswers(sc) ==
    {"value", "not_found", "rate_limited", "request_error", "null_pull_request",
     "null_value"} \cup (IF sc = "add_author_info" THEN {"null_author"} ELSE {})
                  \cup (IF sc = "add_pr_times" THEN {"null_repository"} ELSE {})

\* run_graphql_query returns None
AddColumnNoData(answer) == answer \in {"not_found", "rate_limited", "request_error"}

\* the chain of .get() calls meets None: AttributeError
\* (add-pr-times tests pr_data before it reads createdAt and mergedAt)
AddColumnRaises(sc, answer) ==
    \/ sc # "add_pr_times" /\ answer = "null_pull_request"
    \/ sc = "add_author_info" /\ answer = "null_author"
    \/ sc = "add_pr_times" /\ answer = "null_repository"

\* add-pr-times stores created_at as it came, None included
AddColumnValue(sc, answer) ==
    IF answer = "value" THEN "value"
    ELSE IF sc = "add_pr_times" THEN "<None>"
    ELSE "NOT_FOUND_API_ERROR"

\* the test `OUTPUT_..._COL in original_fieldnames`; in add-pr-times the
\* test is commented out
ColumnAlreadyExists(sc, in_header) == sc # "add_pr_times" /\ in_header

\* the rows the for loop over the reader appends before `continue` when the
\* column exists: add-state appends none
RowsKeptWhenColumnExists(sc, rows) ==
    IF sc = "add_state" THEN <<>>
    ELSE [i \in 1..Len(rows) |-> [row |-> rows[i].id, value |-> "existing"]]

FileAfterExceptionWritten(file, rows) == [written |-> TRUE, rows |-> rows]

\* `except FileNotFoundError` and `except Exception` end in `continue`:
\* step 2 is not reached and the file stays as it was
FileAfterException(file, rows) == file

\* step 2: `if processed_rows and not ..._col_already_exists` (add-pr-times:
\* `if processed_rows`) opens the file for writing
WriteBack(sc, in_header, file, rows) ==
    IF rows # <<>> /\ ~ColumnAlreadyExists(sc, in_header)
    THEN [written |-> TRUE, rows |-> rows]
    ELSE file

\* the input file cannot be opened (here: a run without input rows)
AddColumnOpenFails ==
    /\ batch_pc = "run"
    /\ script \in ColumnAdders
    /\ in_rows = <<>>
    /\ row_num = 0
    /\ printed' = Append(printed, [msg |-> "file_not_found", row |-> 0])
    /\ batch_pc' = "aborted"
    /\ out_file' = FileAfterException(out_file, processed_rows)
    /\ UNCHANGED <<script, column_in_header, in_rows, row_num, processed_rows,
                   batch_sleeps, calls>>
    /\ UNCHANGED <<push_vars, rev_vars, fetch_vars, agg_vars, split_vars, cap_vars,
                   more_vars>>

\* the column is there: the rows are read without a query and the loop over
\* the files goes on
AddColumnSkip ==
    /\ batch_pc = "run"
    /\ script \in ColumnAdders
    /\ ColumnAlreadyExists(script, column_in_header)
    /\ row_num = 0
    /\ printed' = Append(printed, [msg |-> "column_already_exists", row |-> 0])
    /\ processed_rows' = RowsKeptWhenColumnExists(script, in_rows)
    /\ row_num' = Len(processed_rows')
    /\ batch_pc' = "done"
    /\ UNCHANGED <<script, column_in_header, in_rows, batch_sleeps, calls, out_file>>
    /\ UNCHANGED <<push_vars, rev_vars, fetch_vars, agg_vars, split_vars, cap_vars,
                   more_vars>>

AddColumnRow ==
    /\ batch_pc = "run"
    /\ script \in ColumnAdders
    /\ ~ColumnAlreadyExists(script, column_in_header)
    /\ row_num < Len(in_rows)
    /\ LET row == CurrentRow IN
       IF row.info = "missing"
       THEN /\ printed' = Say("missing_info", row)
            /\ processed_rows' =
                  Append(processed_rows, [row |-> row.id, value |-> "ERROR_MISSING_INFO"])
            /\ row_num' = row_num + 1
            /\ UNCHANGED <<calls, batch_sleeps, batch_pc>>
       ELSE IF row.info = "invalid_number"
       THEN /\ printed' = Say("invalid_pr_number", row)
            /\ processed_rows' =
                  Append(processed_rows, [row |-> row.id, value |-> "ERROR_INVALID_PR_NUM"])
            /\ row_num' = row_num + 1
            /\ UNCHANGED <<calls, batch_sleeps, batch_pc>>
       ELSE \E answer \in AddColumnAnswers(script) :
            /\ calls' = Call(row, answer)
            /\ IF AddColumnRaises(script, answer)
               THEN \* `except Exception` around the file: print, next file
                    /\ printed' = Append(printed, [msg |-> "unexpected_problem", row |-> 0])
                    /\ batch_pc' = "aborted"
                    /\ UNCHANGED <<processed_rows, row_num, batch_sleeps>>
               ELSE /\ printed' = Say("fetching", row)
                    /\ processed_rows' = Append(processed_rows,
                           [row |-> row.id, value |-> AddColumnValue(script, answer)])
                    /\ batch_sleeps' =
                          IF answer = "rate_limited"
                          THEN batch_sleeps \o <<RateLimitSleepTenths, AddColumnDelayTenths>>
                          ELSE Append(batch_sleeps, AddColumnDelayTenths)
                    /\ row_num' = row_num + 1
                    /\ UNCHANGED batch_pc
    /\ out_file' = IF batch_pc' = "aborted"
                   THEN FileAfterException(out_file, processed_rows)
                   ELSE out_file
    /\ UNCHANGED <<script, column_in_header, in_rows>>
    /\ UNCHANGED <<push_vars, rev_vars, fetch_vars, agg_vars, split_vars, cap_vars,
                   more_vars>>

\* step 2: the file is overwritten when processed_rows is not empty
AddColumnFinish ==
    /\ batch_pc = "run"
    /\ script \in ColumnAdders
    /\ ~ColumnAlreadyExists(script, column_in_header)
    /\ row_num = Len(in_rows)
    /\ out_file' = WriteBack(script, column_in_header, out_file, processed_rows)
    /\ batch_pc' = "done"
    /\ UNCHANGED <<script, column_in_header, in_rows, row_num, processed_rows, printed, batch_sleeps, calls>>
    /\ UNCHANGED <<push_vars, rev_vars, fetch_vars, agg_vars, split_vars, cap_vars,
                   more_vars>>

\* ---- HPR/module/unique-author-apr.py ----

UniqueAuthorRow ==
    /\ batch_pc = "run"
    /\ script = "unique_author"
    /\ row_num < Len(in_rows)
    /\ LET row == CurrentRow IN
       IF row.info = "missing"
       THEN \* `continue`; the print of the warning is commented out
            UNCHANGED <<printed, processed_rows>>
       ELSE IF row.info = "invalid_number"
       THEN /\ printed' = Say("invalid_pr_number", row)
            /\ UNCHANGED processed_rows
       ELSE /\ processed_rows' = Append(processed_rows, [row |-> row.id, value |-> "counted"])
            /\ UNCHANGED printed
    /\ row_num' = row_num + 1
    /\ UNCHANGED <<script, column_in_header, in_rows, batch_sleeps, calls, out_file, batch_pc>>
    /\ UNCHANGED <<push_vars, rev_vars, fetch_vars, agg_vars, split_vars, cap_vars,
                   more_vars>>

UniqueAuthorFinish ==
    /\ batch_pc = "run"
    /\ script = "unique_author"
    /\ row_num = Len(in_rows)
    /\ printed' = Append(printed, [msg |-> "processed_total_rows", row |-> 0])
    /\ batch_pc' = "done"
    /\ UNCHANGED <<script, column_in_header, in_rows, row_num, processed_rows, batch_sleeps, calls, out_file>>
    /\ UNCHANGED <<push_vars, rev_vars, fetch_vars, agg_vars, split_vars, cap_vars,
                   more_vars>>

\* ---- APR/main2: the sampling loop over the summary rows ----

Main2Task ==
    /\ batch_pc = "run"
    /\ script = "main2"
    /\ row_num < Len(in_rows)
    /\ LET row == CurrentRow IN
       IF row.info = "invalid_count"
       THEN /\ printed' = Say("invalid_unique_pr_count", row)
            /\ UNCHANGED processed_rows
       ELSE IF row.info = "nonpositive_count"
       THEN UNCHANGED <<printed, processed_rows>>
       ELSE IF row.pool = "none"
       THEN UNCHANGED <<printed, processed_rows>>
       ELSE IF row.pool = "no_url_column"
       THEN /\ printed' = Say("missing_url_column", row)
            /\ UNCHANGED processed_rows
       ELSE /\ processed_rows' = Append(processed_rows, [row |-> row.id, value |-> "sampled"])
            /\ UNCHANGED printed
    /\ row_num' = row_num + 1
    /\ UNCHANGED <<script, column_in_header, in_rows, batch_sleeps, calls, out_file, batch_pc>>
    /\ UNCHANGED <<push_vars, rev_vars, fetch_vars, agg_vars, split_vars, cap_vars,
                   more_vars>>

Main2Finish ==
    /\ batch_pc = "run"
    /\ script = "main2"
    /\ row_num = Len(in_rows)
    /\ IF processed_rows = <<>>
       THEN /\ printed' = Append(printed, [msg |-> "no_groups_sampled", row |-> 0])
            /\ UNCHANGED out_file
       ELSE /\ printed' = Append(printed, [msg |-> "processing_complete", row |-> 0])
            /\ out_file' = [written |-> TRUE, rows |-> processed_rows]
    /\ batch_pc' = "done"
    /\ UNCHANGED <<script, column_in_header, in_rows, row_num, processed_rows, batch_sleeps, calls>>
    /\ UNCHANGED <<push_vars, rev_vars, fetch_vars, agg_vars, split_vars, cap_vars,
                   more_vars>>

BatchNext ==
    \/ FirstCommitRow \/ FirstCommitFinish
    \/ Main3Row \/ Main3Finish
    \/ AddColumnOpenFails \/ AddColumnSkip
    \/ AddColumnRow \/ AddColumnFinish
    \/ UniqueAuthorRow \/ UniqueAuthorFinish
    \/ Main2Task \/ Main2Finish

-----------------------------------------------------------------------------
(* recalculate_pr_metrics (Analytics/analytics-revision.py).                *)
(* The frame holds the key of the pull request and five of the metric       *)
(* columns: revision_commit (count), revision_total_additions and           *)
(* revision_total_deletions (sum), initial_total_additions and              *)
(* initial_total_deletions (first).  A cell is null (NaN) or holds a value. *)

NullCell == [null |-> TRUE, v |-> 0]
Cell(v) == [null |-> FALSE, v |-> v]

AggKeys == 1..MaxAggPRs

\* the value of a revision_commit cell of the input: a commit SHA
CommitSha == 7

AggInputRows ==
    [key : AggKeys,
     revision_commit : {NullCell, Cell(CommitSha)},
     revision_total_additions : {Cell(1), Cell(2)},
     revision_total_deletions : {Cell(1)},
     initial_total_additions : {Cell(1), Cell(2)},
     initial_total_deletions : {Cell(1)}]

\* the rows of one group, in frame order
RECURSIVE GroupOf(_, _)
GroupOf(frame, k) ==
    IF frame = <<>> THEN <<>>
    ELSE IF Head(frame).key = k THEN <<Head(frame)>> \o GroupOf(Tail(frame), k)
    ELSE GroupOf(Tail(frame), k)

\* 'count': the number of non-null cells
RECURSIVE AggCount(_)
AggCount(cells) ==
    IF cells = <<>> THEN 0
    ELSE (IF Head(cells).null THEN 0 ELSE 1) + AggCount(Tail(cells))

AggCountCell(cells) == Cell(AggCount(cells))

\* 'sum': nulls are skipped, the sum of no values is 0
RECURSIVE AggSum(_)
AggSum(cells) ==
    IF cells = <<>> THEN 0
    ELSE (IF Head(cells).null THEN 0 ELSE Head(cells).v) + AggSum(Tail(cells))

\* 'first': the first non-null cell, null when there is none
RECURSIVE AggFirst(_)
AggFirst(cells) ==
    IF cells = <<>> THEN NullCell
    ELSE IF Head(cells).null THEN AggFirst(Tail(cells))
    ELSE Head(cells)

\* the sum of two columns: null when either cell is null
AddCells(a, b) == IF a.null \/ b.null THEN NullCell ELSE Cell(a.v + b.v)

Column(rows, name) == [i \in 1..Len(rows) |-> rows[i][name]]

AggregateGroup(k, rows) ==
    LET ra == Cell(AggSum(Column(rows, "revision_total_additions")))
        rd == Cell(AggSum(Column(rows, "revision_total_deletions")))
        ia == AggFirst(Column(rows, "initial_total_additions"))
        id == AggFirst(Column(rows, "initial_total_deletions"))
    IN [key |-> k,
        revision_commit |-> AggCountCell(Column(rows, "revision_commit")),
        revision_total_additions |-> ra,
        revision_total_deletions |-> rd,
        initial_total_additions |-> ia,
        initial_total_deletions |-> id,
        revision_total_change_lines |-> AddCells(ra, rd),
        initial_change_lines |-> AddCells(ia, id)]

\* df.groupby(pr_keys).agg(...).reset_index(): one row per key, in key order
RECURSIVE AggregateFrom(_, _)
AggregateFrom(frame, k) ==
    IF k > MaxAggPRs THEN <<>>
    ELSE (IF GroupOf(frame, k) = <<>> THEN <<>>
          ELSE <<AggregateGroup(k, GroupOf(frame, k))>>)
         \o AggregateFrom(frame, k + 1)

recalculate_pr_metrics(frame) == AggregateFrom(frame, 1)

AggInit ==
    /\ agg_df = <<>>
    /\ agg_once = <<>>
    /\ agg_twice = <<>>
    /\ agg_pc = "load"

AggIdle ==
    /\ agg_df = <<>>
    /\ agg_once = <<>>
    /\ agg_twice = <<>>
    /\ agg_pc = "idle"

\* one more commit row of the frame handed to the function
AggReadRow ==
    /\ agg_pc = "load"
    /\ Len(agg_df) < MaxAggRows
    /\ \E row \in AggInputRows : agg_df' = Append(agg_df, row)
    /\ UNCHANGED <<agg_once, agg_twice, agg_pc>>
    /\ UNCHANGED <<push_vars, rev_vars, fetch_vars, batch_vars, split_vars, cap_vars,
                   more_vars>>

AggregateOnce ==
    /\ agg_pc = "load"
    /\ agg_once' = recalculate_pr_metrics(agg_df)
    /\ agg_pc' = "once"
    /\ UNCHANGED <<agg_df, agg_twice>>
    /\ UNCHANGED <<push_vars, rev_vars, fetch_vars, batch_vars, split_vars, cap_vars,
                   more_vars>>

\* the function applied to its own output
AggregateAgain ==
    /\ agg_pc = "once"
    /\ agg_twice' = recalculate_pr_metrics(agg_once)
    /\ agg_pc' = "twice"
    /\ UNCHANGED <<agg_df, agg_once>>
    /\ UNCHANGED <<push_vars, rev_vars, fetch_vars, batch_vars, split_vars, cap_vars,
                   more_vars>>

AggNext == AggReadRow \/ AggregateOnce \/ AggregateAgain

-----------------------------------------------------------------------------
(* main1: building pr_data from the edges of a query and placing the        *)
(* query's records in the three overall lists.  One date range is           *)
(* modelled: the query for open pull requests, then the one for closed.     *)

\* mergeCommit of a node: null, an object without a usable oid, or an
\* object with its oid
MergeCommits == {"null", "empty_oid", "oid"}

NodeShapes == [stars : {MinStars - 1, MinStars}, mergeCommit : MergeCommits]

EdgeShapes == UNION {[1..n -> NodeShapes] : n \in 0..MaxEdges}

\* the nodes of a query; the pull requests of the two queries are distinct
MakeEdges(shape, suffix) ==
    [i \in 1..Len(shape) |->
        [id |-> (IF suffix = "closed" THEN MaxEdges ELSE 0) + i,
         stars |-> shape[i].stars,
         mergeCommit |-> shape[i].mergeCommit]]

\* lines 274-277
merge_commit_sha_val(node) ==
    IF node.mergeCommit = "oid" THEN "sha" ELSE "N/A"

\* mutant: every record of a closed query counts as merged
IsMergedAlways(pr_item) == TRUE

\* `pr_item["merge_commit_sha"] != "N/A"`
IsMerged(pr_item) == pr_item.merge_commit_sha # "N/A"

RECURSIVE SelectItems(_, _)
SelectItems(items, merged) ==
    IF items = <<>> THEN <<>>
    ELSE (IF IsMerged(Head(items)) = merged THEN <<Head(items)>> ELSE <<>>)
         \o SelectItems(Tail(items), merged)

SplitInit ==
    /\ current_file_suffix = "open_nodraft"
    /\ \E shape \in EdgeShapes : query_edges = MakeEdges(shape, "open_nodraft")
    /\ current_query_prs_data = <<>>
    /\ all_open_prs_overall = <<>>
    /\ all_closed_not_merged_prs_overall = <<>>
    /\ all_merged_prs_overall = <<>>
    /\ split_pc = "collect"

SplitIdle ==
    /\ current_file_suffix = "closed"
    /\ query_edges = <<>>
    /\ current_query_prs_data = <<>>
    /\ all_open_prs_overall = <<>>
    /\ all_closed_not_merged_prs_overall = <<>>
    /\ all_merged_prs_overall = <<>>
    /\ split_pc = "idle"

\* lines 262-299: one edge of the page
AddEdge ==
    /\ split_pc = "collect"
    /\ query_edges # <<>>
    /\ LET node == Head(query_edges) IN
       current_query_prs_data' =
          IF Len(current_query_prs_data) >= SearchApiLimit \/ node.stars < MinStars
          THEN current_query_prs_data
          ELSE Append(current_query_prs_data,
                      [id |-> node.id, stars |-> node.stars,
                       merge_commit_sha |-> merge_commit_sha_val(node)])
    /\ query_edges' = Tail(query_edges)
    /\ UNCHANGED <<current_file_suffix, all_open_prs_overall,
                   all_closed_not_merged_prs_overall, all_merged_prs_overall, split_pc>>
    /\ UNCHANGED <<push_vars, rev_vars, fetch_vars, batch_vars, agg_vars, cap_vars,
                   more_vars>>

\* lines 309-320 for the open query, then the closed query starts
PlaceOpenQuery ==
    /\ split_pc = "collect"
    /\ query_edges = <<>>
    /\ current_file_suffix = "open_nodraft"
    /\ all_open_prs_overall' = all_open_prs_overall \o current_query_prs_data
    /\ current_file_suffix' = "closed"
    /\ \E shape \in EdgeShapes : query_edges' = MakeEdges(shape, "closed")
    /\ current_query_prs_data' = <<>>
    /\ UNCHANGED <<all_closed_not_merged_prs_overall, all_merged_prs_overall, split_pc>>
    /\ UNCHANGED <<push_vars, rev_vars, fetch_vars, batch_vars, agg_vars, cap_vars,
                   more_vars>>

\* lines 309-320 for the closed query
PlaceClosedQuery ==
    /\ split_pc = "collect"
    /\ query_edges = <<>>
    /\ current_file_suffix = "closed"
    /\ all_merged_prs_overall' =
          all_merged_prs_overall \o SelectItems(current_query_prs_data, TRUE)
    /\ all_closed_not_merged_prs_overall' =
          all_closed_not_merged_prs_overall \o SelectItems(current_query_prs_data, FALSE)
    /\ split_pc' = "done"
    /\ UNCHANGED <<current_file_suffix, query_edges, current_query_prs_data,
                   all_open_prs_overall>>
    /\ UNCHANGED <<push_vars, rev_vars, fetch_vars, batch_vars, agg_vars, cap_vars,
                   more_vars>>

SplitNext == AddEdge \/ PlaceOpenQuery \/ PlaceClosedQuery

-----------------------------------------------------------------------------
(* main1: the pagination loop seen through the number of records it has     *)
(* accumulated.  A page holds at most RESULTS_PER_PAGE edges, of which some *)
(* pass the stars filter; the source offers at most MaxCapPages pages.      *)

RESULTS_PER_PAGE == 50

\* how many edges of a page pass the filter
PassingCounts == {0, 30, RESULTS_PER_PAGE}

Min(a, b) == IF a < b THEN a ELSE b

\* mutant: the loop over the edges has no test of the cap
CapAppendUnchecked(len, passing) == len + passing

\* lines 262-299: records are appended until the list holds 1000
CapAppend(len, passing) == Min(SearchApiLimit, len + passing)

\* line 304
CapContinue(hasNext, len) == hasNext /\ len < SearchApiLimit

CapInit ==
    /\ cap_len = 0
    /\ cap_page_count = 0
    /\ cap_has_next = FALSE
    /\ cap_requests = 0
    /\ cap_pc = "run"

CapIdle ==
    /\ cap_len = 0
    /\ cap_page_count = 0
    /\ cap_has_next = FALSE
    /\ cap_requests = 0
    /\ cap_pc = "idle"

\* lines 185-242: the page request fails for good (retries used up, 401,
\* GraphQL errors): the loop ends
CapPageFails ==
    /\ cap_pc = "run"
    /\ cap_len < SearchApiLimit
    /\ cap_page_count' = cap_page_count + 1
    /\ cap_requests' = cap_requests + 1
    /\ cap_pc' = "done"
    /\ UNCHANGED <<cap_len, cap_has_next>>
    /\ UNCHANGED <<push_vars, rev_vars, fetch_vars, batch_vars, agg_vars, split_vars,
                   more_vars>>

\* lines 179-307: one iteration of the loop in which the page, if asked
\* for, is received and processed
CapPage ==
    /\ cap_pc = "run"
    /\ cap_page_count' = cap_page_count + 1
    /\ IF cap_len >= SearchApiLimit
       THEN \* lines 181-183: `break` before any request
            /\ cap_pc' = "done"
            /\ UNCHANGED <<cap_len, cap_has_next, cap_requests>>
       ELSE \E passing \in PassingCounts, hasNext \in BOOLEAN :
            /\ hasNext => cap_page_count + 1 < MaxCapPages
            /\ cap_requests' = cap_requests + 1
            /\ cap_len' = CapAppend(cap_len, passing)
            /\ cap_has_next' = hasNext
            /\ cap_pc' = IF CapContinue(hasNext, CapAppend(cap_len, passing))
                         THEN "run" ELSE "done"
    /\ UNCHANGED <<push_vars, rev_vars, fetch_vars, batch_vars, agg_vars, split_vars,
                   more_vars>>

CapNext == CapPageFails \/ CapPage

-----------------------------------------------------------------------------
(* load_settings of APR/main1_get_data.py and the module-level code that    *)
(* follows it.  The settings file is absent, unreadable, or a list of lines: *)
(* the first line is the token, given as the prefix and the rest of the     *)
(* stripped text (<<>> for an empty line); a later line is the list of      *)
(* fields line_content.split(',') yields on the stripped text (<<"">> for a *)
(* blank line).                                                            *)

TokenPlaceholder == <<"YOUR_GITHUB_TOKEN_HERE">>

TokenLines ==
    {<<>>, TokenPlaceholder, <<"ghp_", "t">>, <<"github_pat_", "t">>, <<"gho_", "t">>}

DateLines == {<<"">>, <<"d1">>, <<"d1", "d2">>, <<"d1", "d2", "d3">>}

SettingsFiles ==
    {[state |-> s, lines |-> <<>>] : s \in {"missing", "unreadable", "ok"}}
    \cup {[state |-> "ok", lines |-> <<t>> \o rest] :
            t \in TokenLines,
            rest \in UNION {[1..n -> DateLines] : n \in 0..MaxSettingsLines}}

\* token.startswith(prefix)
StartsWith(token, prefix) == token # <<>> /\ token[1] = prefix

\* mutant: only the empty token and the placeholder are refused
TokenRefusedWithoutPrefixTest(token) ==
    \/ token = <<>>
    \/ token = TokenPlaceholder

\* line 81: not token or token == placeholder or
\*          not startswith("ghp_") and not startswith("github_pat_")
TokenRefused(token) ==
    \/ token = <<>>
    \/ token = TokenPlaceholder
    \/ ~StartsWith(token, "ghp_") /\ ~StartsWith(token, "github_pat_")

\* line 88: `if line_content:` on the stripped line
IsBlankLine(fields) == fields = <<"">>

\* line 90: `start_date, end_date = line_content.split(',')` raises ValueError
UnpackRaises(fields) == Len(fields) # 2

SettingsInit ==
    /\ settings_file \in SettingsFiles
    /\ settings_line = 0
    /\ GITHUB_TOKEN = <<>>
    /\ date_ranges_to_process = <<>>
    /\ net_requests = 0
    /\ settings_pc = "open"

SettingsIdle ==
    /\ settings_file = [state |-> "missing", lines |-> <<>>]
    /\ settings_line = 0
    /\ GITHUB_TOKEN = <<>>
    /\ date_ranges_to_process = <<>>
    /\ net_requests = 0
    /\ settings_pc = "idle"

\* lines 73-84, 95-103: open and read the file, test the first line
LoadSettingsOpen ==
    /\ settings_pc = "open"
    /\ IF \/ settings_file.state # "ok"
          \/ settings_file.lines = <<>>
          \/ TokenRefused(settings_file.lines[1])
       THEN /\ settings_pc' = "exited"
            /\ UNCHANGED <<settings_line, GITHUB_TOKEN>>
       ELSE /\ GITHUB_TOKEN' = settings_file.lines[1]
            /\ settings_line' = 1
            /\ settings_pc' = "lines"
    /\ UNCHANGED <<settings_file, date_ranges_to_process, net_requests>>
    /\ UNCHANGED <<push_vars, rev_vars, fetch_vars, batch_vars, agg_vars, split_vars,
                   cap_vars, files_vars, first_vars>>

\* lines 86-94: one iteration of `for i, line_content in enumerate(lines[1:])`
LoadSettingsLine ==
    /\ settings_pc = "lines"
    /\ settings_line < Len(settings_file.lines)
    /\ LET fields == settings_file.lines[settings_line + 1] IN
         IF IsBlankLine(fields)
         THEN /\ settings_line' = settings_line + 1
              /\ UNCHANGED <<date_ranges_to_process, settings_pc>>
         ELSE IF UnpackRaises(fields)
         THEN /\ settings_pc' = "exited"
              /\ UNCHANGED <<settings_line, date_ranges_to_process>>
         ELSE /\ date_ranges_to_process' = Append(date_ranges_to_process, fields)
              /\ settings_line' = settings_line + 1
              /\ UNCHANGED settings_pc
    /\ UNCHANGED <<settings_file, GITHUB_TOKEN, net_requests>>
    /\ UNCHANGED <<push_vars, rev_vars, fetch_vars, batch_vars, agg_vars, split_vars,
                   cap_vars, files_vars, first_vars>>

\* lines 105-109: after the loop, `if not date_ranges: exit()`, else return
LoadSettingsReturn ==
    /\ settings_pc = "lines"
    /\ settings_line = Len(settings_file.lines)
    /\ settings_pc' = IF date_ranges_to_process = <<>> THEN "exited" ELSE "loaded"
    /\ UNCHANGED <<settings_file, settings_line, GITHUB_TOKEN, date_ranges_to_process,
                   net_requests>>
    /\ UNCHANGED <<push_vars, rev_vars, fetch_vars, batch_vars, agg_vars, split_vars,
                   cap_vars, files_vars, first_vars>>

\* lines 145-204: the program goes on to its queries; requests.post is called
Main1PostRequest ==
    /\ settings_pc = "loaded"
    /\ net_requests < MaxNetRequests
    /\ net_requests' = net_requests + 1
    /\ UNCHANGED <<settings_file, settings_line, GITHUB_TOKEN, date_ranges_to_process,
                   settings_pc>>
    /\ UNCHANGED <<push_vars, rev_vars, fetch_vars, batch_vars, agg_vars, split_vars,
                   cap_vars, files_vars, first_vars>>

SettingsNext ==
    LoadSettingsOpen \/ LoadSettingsLine \/ LoadSettingsReturn \/ Main1PostRequest

-----------------------------------------------------------------------------
(* The commit a script takes as the first commit of a pull request.         *)
(*   main3     - pr_all_commit_shas[0] of analyze_pr_from_csv_row           *)
(*   hpr_main1 - first_commit_sha of parse_pr_node_to_dict                  *)
(*   main5, hpr_main4 - the commit that all_commits[1:] leaves out of the   *)
(*               sums of the second-to-last script                         *)
(* The API returns the commits of the pull request in some order; a commit *)
(* carries one timestamp, which it reports as authoredDate and as          *)
(* committedDate.                                                          *)

NoCommit == "<none>"

FirstScripts == {"main3", "hpr_main1", "main5", "hpr_main4"}

CommitDates == 1..MaxCommitDates

ApiCommit(i, t) == [oid |-> ShaOf(i), authoredDate |-> t, committedDate |-> t]

\* sorted(valid_commits, key=lambda c: c['committedDate']), stable
RECURSIVE InsertByCommittedDate(_, _)
InsertByCommittedDate(c, s) ==
    IF s = <<>> THEN <<c>>
    ELSE IF c.committedDate < Head(s).committedDate THEN <<c>> \o s
    ELSE <<Head(s)>> \o InsertByCommittedDate(c, Tail(s))

RECURSIVE SortByCommittedDate(_)
SortByCommittedDate(cs) ==
    IF cs = <<>> THEN <<>>
    ELSE InsertByCommittedDate(Last(cs), SortByCommittedDate(SubSeq(cs, 1, Len(cs) - 1)))

\* s[0]['oid'] of a list, when the list is not empty
FirstOid(s) == IF s = <<>> THEN NoCommit ELSE s[1].oid

\* what get_all_pr_commits_data hands to __main__: None in APR/main5 (the
\* NameError of line 94), the nodes in the order received in HPR/main4
AllCommits(sc, cs) == IF sc = "main5" THEN ReturnedNone ELSE Returned(cs)

FirstInit ==
    /\ first_script \in FirstScripts
    /\ api_commits = <<>>
    /\ first_commit = NoCommit
    /\ first_pc = "fetch"

\* one more commit of the pull request, in the order the API returns them
FetchApiCommit ==
    /\ first_pc = "fetch"
    /\ Len(api_commits) < MaxApiCommits
    /\ \E t \in CommitDates :
          api_commits' = Append(api_commits, ApiCommit(Len(api_commits) + 1, t))
    /\ UNCHANGED <<first_script, first_commit, first_pc>>
    /\ UNCHANGED <<push_vars, rev_vars, fetch_vars, batch_vars, agg_vars, split_vars,
                   cap_vars, settings_vars, files_vars>>

\* APR/main3: get_pr_commit_shas_sorted sorts by authoredDate, the caller
\* takes element 0
Main3FirstCommit ==
    /\ first_pc = "fetch"
    /\ first_script = "main3"
    /\ first_commit' = FirstOid(SortByAuthoredDate(api_commits))
    /\ first_pc' = "done"
    /\ UNCHANGED <<first_script, api_commits>>
    /\ UNCHANGED <<push_vars, rev_vars, fetch_vars, batch_vars, agg_vars, split_vars,
                   cap_vars, settings_vars, files_vars>>

\* HPR/main1: parse_pr_node_to_dict sorts by committedDate and takes element 0
HprMain1FirstCommit ==
    /\ first_pc = "fetch"
    /\ first_script = "hpr_main1"
    /\ first_commit' = FirstOid(SortByCommittedDate(api_commits))
    /\ first_pc' = "done"
    /\ UNCHANGED <<first_script, api_commits>>
    /\ UNCHANGED <<push_vars, rev_vars, fetch_vars, batch_vars, agg_vars, split_vars,
                   cap_vars, settings_vars, files_vars>>

\* APR/main5, HPR/main4: commits_to_sum = all_commits[1:] leaves out
\* all_commits[0]; nothing is left out when all_commits is None or empty
SecondToLastFirstCommit ==
    /\ first_pc = "fetch"
    /\ first_script \in {"main5", "hpr_main4"}
    /\ LET all_commits == AllCommits(first_script, api_commits) IN
         first_commit' = IF all_commits.kind = "none" THEN NoCommit
                         ELSE FirstOid(all_commits.records)
    /\ first_pc' = "done"
    /\ UNCHANGED <<first_script, api_commits>>
    /\ UNCHANGED <<push_vars, rev_vars, fetch_vars, batch_vars, agg_vars, split_vars,
                   cap_vars, settings_vars, files_vars>>

FirstNext ==
    FetchApiCommit \/ Main3FirstCommit \/ HprMain1FirstCommit \/ SecondToLastFirstCommit

-----------------------------------------------------------------------------
(* The CSV files of the APR pipeline and the scripts that write them.       *)
(* A path is the list of its components; a script resolves the relative     *)
(* path it names against the directory it is run from (its own).  The file  *)
(* system maps a path to the list of the scripts that wrote it, in order;   *)
(* a file exists when that list is not empty.                              *)

\* os.path resolution of a relative path against a directory
RECURSIVE Resolve(_, _)
Resolve(dir, rel) ==
    IF rel = <<>> THEN dir
    ELSE IF Head(rel) = ".." THEN Resolve(SubSeq(dir, 1, Len(dir) - 1), Tail(rel))
    ELSE Resolve(Append(dir, Head(rel)), Tail(rel))

AprDir == <<"src", "APR">>
AprModuleDir == <<"src", "APR", "module">>

\* '../Data/RQ1-APR.csv' of main3, main5 and main6
Rq1AprPath == Resolve(AprDir, <<"..", "Data", "RQ1-APR.csv">>)

\* main3: output_csv_file
Main3OutputPath == Resolve(AprDir, <<"..", "Data", "RQ2-APR-changefile-Name.csv">>)

\* main5: output_csv_filename
Main5OutputPath == Resolve(AprDir, <<"..", "Data", "RQ2-APR-changefile-Name.csv">>)

\* main6: OUTPUT_CSV_PATH
Main6OutputPath ==
    Resolve(AprDir, <<"..", "Data", "commit_details", "APR-commit-details.csv">>)

\* add-push-date.py: CSV_FILE_PATH, read and written
AddPushDatePath ==
    Resolve(AprModuleDir, <<"..", "..", "Data", "commit_details", "APR-commit-details.csv">>)

CsvPaths == {Rq1AprPath, Main3OutputPath, Main5OutputPath, Main6OutputPath, AddPushDatePath}

PipelineScripts == {"main3", "main5", "main6", "add_push_date"}

Exists(path) == fs[path] # <<>>

\* open(path, 'w') / df.to_csv(path) by script sc
WriteFile(path, sc) == [fs EXCEPT ![path] = Append(@, sc)]

\* main5: `results` holds one entry per row whose all_commits is not None
Main5Results(input_exists) ==
    IF input_exists /\ AllCommits("main5", <<>>).kind # "none"
    THEN <<"pr_result">> ELSE <<>>

FilesInit ==
    /\ \E given \in {<<>>, <<"main2">>} :
          fs = [p \in CsvPaths |-> IF p = Rq1AprPath THEN given ELSE <<>>]
    /\ script_runs = <<>>
    /\ files_pc = "run"

\* main3 main(): the input is opened first, then the output with mode 'w'
RunMain3 ==
    /\ files_pc = "run"
    /\ Len(script_runs) < MaxScriptRuns
    /\ script_runs' = Append(script_runs, "main3")
    /\ fs' = IF Exists(Rq1AprPath) THEN WriteFile(Main3OutputPath, "main3") ELSE fs
    /\ UNCHANGED files_pc
    /\ UNCHANGED <<push_vars, rev_vars, fetch_vars, batch_vars, agg_vars, split_vars,
                   cap_vars, settings_vars, first_vars>>

\* main5 __main__: the output is opened with mode 'w' only `if results:`
RunMain5 ==
    /\ files_pc = "run"
    /\ Len(script_runs) < MaxScriptRuns
    /\ script_runs' = Append(script_runs, "main5")
    /\ fs' = IF Main5Results(Exists(Rq1AprPath)) # <<>>
             THEN WriteFile(Main5OutputPath, "main5") ELSE fs
    /\ UNCHANGED files_pc
    /\ UNCHANGED <<push_vars, rev_vars, fetch_vars, batch_vars, agg_vars, split_vars,
                   cap_vars, settings_vars, first_vars>>

\* main6 main(): returns when the input is missing, else opens the output
\* with mode 'w'
RunMain6 ==
    /\ files_pc = "run"
    /\ Len(script_runs) < MaxScriptRuns
    /\ script_runs' = Append(script_runs, "main6")
    /\ fs' = IF Exists(Rq1AprPath) THEN WriteFile(Main6OutputPath, "main6") ELSE fs
    /\ UNCHANGED files_pc
    /\ UNCHANGED <<push_vars, rev_vars, fetch_vars, batch_vars, agg_vars, split_vars,
                   cap_vars, settings_vars, first_vars>>

\* add-push-date.py main(): returns when the file is missing, else reads it
\* and ends with df.to_csv(CSV_FILE_PATH)
RunAddPushDate ==
    /\ files_pc = "run"
    /\ Len(script_runs) < MaxScriptRuns
    /\ script_runs' = Append(script_runs, "add_push_date")
    /\ fs' = IF Exists(AddPushDatePath)
             THEN WriteFile(AddPushDatePath, "add_push_date") ELSE fs
    /\ UNCHANGED files_pc
    /\ UNCHANGED <<push_vars, rev_vars, fetch_vars, batch_vars, agg_vars, split_vars,
                   cap_vars, settings_vars, first_vars>>

FilesNext == RunMain3 \/ RunMain5 \/ RunMain6 \/ RunAddPushDate

FilesIdle ==
    /\ fs = <<>>
    /\ script_runs = <<>>
    /\ files_pc = "idle"

FirstIdle ==
    /\ first_script = "main3"
    /\ api_commits = <<>>
    /\ first_commit = NoCommit
    /\ first_pc = "idle"

MoreIdle == SettingsIdle /\ FilesIdle /\ FirstIdle

ExtIdle == BatchIdle /\ AggIdle /\ SplitIdle /\ CapIdle /\ MoreIdle

-----------------------------------------------------------------------------
(* Specifications *)

Init == PushInit /\ RevIdle /\ FetchIdle /\ ExtIdle
Next == PushNext
Spec == Init /\ [][Next]_vars

RevSpecInit == PushIdle /\ RevInit /\ FetchIdle /\ ExtIdle
SpecRev == RevSpecInit /\ [][RevNext]_vars

FetchSpecInit == PushIdle /\ RevIdle /\ FetchInit /\ ExtIdle
SpecFetch == FetchSpecInit /\ [][FetchNext]_vars

BatchSpecInit ==
    PushIdle /\ RevIdle /\ FetchIdle /\ BatchInit /\ AggIdle /\ SplitIdle /\ CapIdle
    /\ MoreIdle
SpecBatch == BatchSpecInit /\ [][BatchNext]_vars

AggSpecInit ==
    PushIdle /\ RevIdle /\ FetchIdle /\ BatchIdle /\ AggInit /\ SplitIdle /\ CapIdle
    /\ MoreIdle
SpecAgg == AggSpecInit /\ [][AggNext]_vars

SplitSpecInit ==
    PushIdle /\ RevIdle /\ FetchIdle /\ BatchIdle /\ AggIdle /\ SplitInit /\ CapIdle
    /\ MoreIdle
SpecSplit == SplitSpecInit /\ [][SplitNext]_vars

CapSpecInit ==
    PushIdle /\ RevIdle /\ FetchIdle /\ BatchIdle /\ AggIdle /\ SplitIdle /\ CapInit
    /\ MoreIdle
SpecCap == CapSpecInit /\ [][CapNext]_vars

SettingsSpecInit ==
    PushIdle /\ RevIdle /\ FetchIdle /\ BatchIdle /\ AggIdle /\ SplitIdle /\ CapIdle
    /\ SettingsInit /\ FilesIdle /\ FirstIdle
SpecSettings == SettingsSpecInit /\ [][SettingsNext]_vars

FirstSpecInit ==
    PushIdle /\ RevIdle /\ FetchIdle /\ BatchIdle /\ AggIdle /\ SplitIdle /\ CapIdle
    /\ SettingsIdle /\ FilesIdle /\ FirstInit
SpecFirst == FirstSpecInit /\ [][FirstNext]_vars

FilesSpecInit ==
    PushIdle /\ RevIdle /\ FetchIdle /\ BatchIdle /\ AggIdle /\ SplitIdle /\ CapIdle
    /\ SettingsIdle /\ FilesInit /\ FirstIdle
SpecFiles == FilesSpecInit /\ [][FilesNext]_vars
-----------------------------------------------------------------------------
(* Properties of the inferred push dates                                   *)

HasEmailAndDate(c) ==
    c.committer = "obj" /\ ~Falsy(c.email) /\ c.date.kind = "iso"

AllHaveEmailAndDate(cs) == \A i \in 1..Len(cs) : HasEmailAndDate(cs[i])

RECURSIVE Flatten(_)
Flatten(groups) ==
    IF groups = <<>> THEN <<>> ELSE Head(groups) \o Flatten(Tail(groups))

Occurrences(x, s) == Cardinality({i \in 1..Len(s) : s[i] = x})

SamePositions(s, t) ==
    /\ Len(s) = Len(t)
    /\ \A i \in 1..Len(s) : Occurrences(s[i], s) = Occurrences(s[i], t)

\* every group under construction or finished
GroupsSoFar ==
    IF push_pc = "loop" /\ current_group # <<>>
    THEN Append(commit_groups, current_group)
    ELSE commit_groups

\* C1: when every commit of the list has a committer email and a committer
\* timestamp, the members of each push group share one committer email and
\* each member after the first is at most 300 seconds after its predecessor,
\* the members being in ascending timestamp order.
C1_GroupsWithinWindow ==
    AllHaveEmailAndDate(commits) =>
        \A k \in 1..Len(GroupsSoFar) :
            LET g == GroupsSoFar[k] IN
            \A i \in 2..Len(g) :
                /\ g[i].email = g[1].email
                /\ g[i].date.t - g[i - 1].date.t >= 0
                /\ g[i].date.t - g[i - 1].date.t <= PushWindowSeconds

C1_Witness ==
    /\ push_pc = "done"
    /\ AllHaveEmailAndDate(commits)
    /\ Len(commits) = 3
    /\ Len(commit_groups) = 2
    /\ \E k \in 1..2 : /\ Len(commit_groups[k]) = 2
                       /\ commit_groups[k][1].date.t < commit_groups[k][2].date.t

\* C2: when every commit has a committer email and timestamp, the groups in
\* the order they were built, concatenated, are the input list in ascending
\* timestamp order: a rearrangement of the input with nothing duplicated or
\* dropped.
C2_GroupsPartitionSortedInput ==
    (push_pc = "done" /\ AllHaveEmailAndDate(commits)) =>
        LET flat == Flatten(commit_groups) IN
        /\ SamePositions(commits, flat)
        /\ SamePositions(flat, commits)
        /\ \A i \in 2..Len(flat) : flat[i - 1].date.t <= flat[i].date.t
        /\ \A k \in 1..Len(commit_groups) : commit_groups[k] # <<>>

C2_Witness ==
    /\ push_pc = "done"
    /\ AllHaveEmailAndDate(commits)
    /\ Len(commits) = 3
    /\ commits[1].date.t > commits[2].date.t
    /\ commits[2].date.t > commits[3].date.t
    /\ Len(commit_groups) >= 2

\* the loop has just handled sorted_commits[idx] and put it in a group
StepGrouped ==
    /\ push_pc = "loop" /\ push_pc' = "loop"
    /\ idx <= Len(sorted_commits) /\ idx' = idx + 1
    /\ current_group' # current_group

StartsNewGroup ==
    /\ commit_groups' = Append(commit_groups, current_group)
    /\ current_group' = <<sorted_commits[idx]>>

AppendsToGroup ==
    /\ commit_groups' = commit_groups
    /\ current_group' = Append(current_group, sorted_commits[idx])

\* C3 as stated: a commit that follows another starts a new group exactly
\* when its email differs from the previous one's or the gap exceeds 300
\* seconds; with the same email and a gap of at most 300 seconds (300
\* included) it is appended to the current group.
C3_Original ==
    [][(StepGrouped /\ current_group # <<>>) =>
        LET c == sorted_commits[idx]
            prev == Last(current_group)
        IN IF c.email # prev.email \/ Abs(c.date.t - prev.date.t) > PushWindowSeconds
           THEN StartsNewGroup
           ELSE AppendsToGroup]_vars

\* C3 amended: a commit that has an email and a timestamp is never skipped,
\* and a commit that follows another starts a new group exactly when its
\* email differs from the previous one's or the gap is 300 seconds or more;
\* with the same email and a gap below 300 seconds it is appended.
C3_SplitAtWindowOrMore ==
    [][/\ (push_pc = "loop" /\ idx <= Len(sorted_commits)
            /\ HasEmailAndDate(sorted_commits[idx]))
          => StepGrouped
       /\ (StepGrouped /\ current_group = <<>>)
          => (current_group' = <<sorted_commits[idx]>> /\ commit_groups' = commit_groups)
       /\ (StepGrouped /\ current_group # <<>>) =>
            LET c == sorted_commits[idx]
                prev == Last(current_group)
            IN IF c.email # prev.email \/ Abs(c.date.t - prev.date.t) >= PushWindowSeconds
               THEN StartsNewGroup
               ELSE AppendsToGroup]_vars

\* two consecutive groups split by a gap of exactly 300 seconds, and a group
\* joined by a gap just below it
C3_Witness ==
    /\ push_pc = "done"
    /\ AllHaveEmailAndDate(commits)
    /\ Len(commit_groups) = 2
    /\ Len(commit_groups[2]) = 2
    /\ commit_groups[2][1].email = Last(commit_groups[1]).email
    /\ commit_groups[2][1].date.t - Last(commit_groups[1]).date.t = PushWindowSeconds
    /\ commit_groups[2][2].date.t - commit_groups[2][1].date.t = PushWindowSeconds - 1

\* C4: every commit in the returned map carries the committer timestamp of
\* the last member of its group, and that member is the latest of the group;
\* a single commit gives one single-member group mapped to its own timestamp.
C4_PushDateIsLatestOfGroup ==
    push_pc = "done" =>
        /\ \A k \in 1..Len(commit_groups) :
              LET g == commit_groups[k] IN
              \A i \in 1..Len(g) :
                  /\ g[i].sha # Absent =>
                        /\ g[i].sha \in DOMAIN sha_to_push_date_map
                        /\ sha_to_push_date_map[g[i].sha] = Last(g).date.t
                  /\ g[i].date.t <= Last(g).date.t
        /\ (Len(commits) = 1 /\ HasEmailAndDate(commits[1]) /\ commits[1].sha # Absent) =>
              /\ commit_groups = <<commits>>
              /\ sha_to_push_date_map = (commits[1].sha :> commits[1].date.t)

\* C5: a commit whose committer email or timestamp is missing is no key of
\* the returned map; a commit with an email, a timestamp and a sha is.
C5_IncompleteCommitsExcluded ==
    push_pc = "done" =>
        \A i \in 1..Len(commits) :
            LET c == commits[i] IN
            /\ (c.sha # Absent /\ ~HasEmailAndDate(c))
                  => c.sha \notin DOMAIN sha_to_push_date_map
            /\ (c.sha # Absent /\ HasEmailAndDate(c))
                  => c.sha \in DOMAIN sha_to_push_date_map

-----------------------------------------------------------------------------
(* Properties of the revision classifier                                   *)

WrittenWithRevision(k) == rev_file.created /\ k \in DOMAIN rev_file.rows
WrittenWithoutRevision(k) == norev_file.created /\ k \in DOMAIN norev_file.rows

RowsOfPR(k) == {i \in 1..Len(df) : df[i].pr = k}

\* condition (a): every commit of the pull request is flagged first
AllFlaggedFirst(k) == \A i \in RowsOfPR(k) : df[i].Is_first_commit

\* condition (b): exactly one commit, and it is not flagged first
SingleUnflagged(k) ==
    /\ Cardinality(RowsOfPR(k)) = 1
    /\ \A i \in RowsOfPR(k) : ~df[i].Is_first_commit

\* C6: a pull request with exactly one commit that is not flagged first is
\* classified no-revision: extract_prs_without_revision writes it,
\* extract_prs_with_revision does not, and analyze_final_data counts it
\* among the pull requests without revision.
C6_SingleLateCommitIsNoRevision ==
    \A k \in PRKeys :
        (RowsOfPR(k) # {} /\ SingleUnflagged(k)) =>
            /\ rev_pc = "done" => (WrittenWithoutRevision(k) /\ ~WrittenWithRevision(k))
            /\ rev_pc = "analyzed" => k \in analysis.no_revision_prs

C6_Witness ==
    /\ rev_pc = "done"
    /\ \E k \in PRKeys : RowsOfPR(k) # {} /\ SingleUnflagged(k)
    /\ rev_file.created

\* C7: a pull request all of whose commits are flagged first, however many
\* there are, is classified no-revision.
C7_AllFirstIsNoRevision ==
    \A k \in PRKeys :
        (RowsOfPR(k) # {} /\ AllFlaggedFirst(k)) =>
            /\ rev_pc = "done" => (WrittenWithoutRevision(k) /\ ~WrittenWithRevision(k))
            /\ rev_pc = "analyzed" => k \in analysis.no_revision_prs

C7_Witness ==
    /\ rev_pc = "done"
    /\ \E k \in PRKeys : Cardinality(RowsOfPR(k)) = 3 /\ AllFlaggedFirst(k)
    /\ norev_file.created

\* C8: a pull request that matches neither condition (a) nor condition (b)
\* is classified as having a revision: extract_prs_with_revision writes it
\* and extract_prs_without_revision does not.
C8_OtherwiseHasRevision ==
    \A k \in PRKeys :
        (RowsOfPR(k) # {} /\ ~AllFlaggedFirst(k) /\ ~SingleUnflagged(k)) =>
            /\ rev_pc = "done" => (WrittenWithRevision(k) /\ ~WrittenWithoutRevision(k))
            /\ rev_pc = "analyzed" => k \notin analysis.no_revision_prs

C8_Witness ==
    /\ rev_pc = "done"
    /\ \E k \in PRKeys :
          /\ Cardinality(RowsOfPR(k)) = 2
          /\ \E i, j \in RowsOfPR(k) :
                i < j /\ df[i].Is_first_commit /\ ~df[j].Is_first_commit
    /\ \E k \in PRKeys :
          /\ Cardinality(RowsOfPR(k)) = 2
          /\ \A i \in RowsOfPR(k) : ~df[i].Is_first_commit

-----------------------------------------------------------------------------
(* Claims about the paginated fetchers and their retry loops *)

NoFaults == FaultsUsed = 0

\* the records of the source that the fetcher is to return: main1 keeps the
\* repositories with at least 10 stars, the others keep every record
RECURSIVE Concat(_)
Concat(ps) == IF ps = <<>> THEN <<>> ELSE Head(ps) \o Concat(Tail(ps))

Kept(f, rec) == f = "main1" => rec.stars >= MinStars

IdsOf(recs) == {recs[i].id : i \in 1..Len(recs)}

ExpectedIds(f, recs) == {recs[i].id : i \in {j \in 1..Len(recs) : Kept(f, recs[j])}}

TwoPagesFetched(f) ==
    (fetcher = f /\ Len(pages) = 2 /\ NoFaults) =>
        /\ Len(requests) <= 2
        /\ fetch_pc = "done" =>
              /\ Len(requests) = 2
              /\ requests[1].after = NoCursor
              /\ requests[2].after = EndCursor(NoCursor)
              /\ ret.kind = "list"
              /\ IdsOf(ret.records) = ExpectedIds(f, Concat(pages))
              /\ Len(ret.records) = Cardinality(IdsOf(ret.records))

\* C9: when page 1 reports hasNextPage=true and page 2 hasNextPage=false
\* and no request fails, each of the fetchers get_pr_commit_shas_sorted
\* (main3), get_all_pr_commits_data (APR main5) and the search loop (main1)
\* issues exactly 2 page requests, the second carrying the endCursor of
\* page 1, and returns the records of both pages, none twice, none missing.
C9_TwoRequestsAndUnion ==
    \A f \in {"main1", "main3", "main5"} : TwoPagesFetched(f)

\* the requests i-2, i-1, i are the three attempts of one call
OneCall(i) ==
    /\ i >= 3
    /\ requests[i - 2].attempt = 0
    /\ requests[i - 1].attempt = 1
    /\ requests[i].attempt = 2
    /\ requests[i - 2].after = requests[i].after
    /\ requests[i - 1].after = requests[i].after

FailedTwiceThenOk(i) ==
    /\ OneCall(i)
    /\ requests[i - 2].answer = "s500"
    /\ requests[i - 1].answer = "s500"
    /\ requests[i].answer = "ok"

\* the page that answered request i has been taken into the result
Delivered(i) ==
    LET page == PageAt(requests[i].after)
    IN /\ ExpectedIds(fetcher, page) \subseteq IdsOf(acc)
       /\ i = Len(requests) =>
             IF HasNextPage(requests[i].after)
             THEN fetch_pc = "run" /\ cursor = EndCursor(requests[i].after) /\ attempt = 0
             ELSE /\ fetch_pc = "done"
                  /\ ret.kind = "list"
                  /\ IdsOf(ret.records) = IdsOf(acc)
       /\ fetch_pc = "done" => ret.kind # "none"

\* C10: in the retry loops of main1 and of run_graphql_query (main3), a call
\* never has more than 3 attempts; after HTTP 500 on the first two attempts
\* the call makes its third attempt, and when that attempt succeeds its
\* result is the one the loop hands on.
C10_ThirdAttemptResultWithinBudget ==
    fetcher \in {"main1", "main3"} =>
        /\ \A i \in 1..Len(requests) : requests[i].attempt < 3
        /\ attempt < 3
        /\ (/\ Len(requests) >= 2
            /\ requests[Len(requests)].attempt = 1
            /\ requests[Len(requests)].answer = "s500"
            /\ requests[Len(requests) - 1].answer = "s500")
              => (fetch_pc = "run" /\ attempt = 2
                    /\ cursor = requests[Len(requests)].after)
        /\ \A i \in 1..Len(requests) : FailedTwiceThenOk(i) => Delivered(i)

C10_Witness ==
    /\ fetcher = "main1"
    /\ fetch_pc = "done"
    /\ Len(pages) = 2
    /\ Len(requests) = 4
    /\ FailedTwiceThenOk(3)
    /\ requests[3].after = NoCursor
    /\ ret.kind = "list"
    /\ ret.records # <<>>
    /\ IdsOf(ret.records) = ExpectedIds("main1", Concat(pages))

\* the number of requests of one page that were answered with a rate-limit
\* signal (GraphQL RATE_LIMITED or HTTP 403)
RateLimitedOn(c) ==
    Cardinality({i \in 1..Len(requests) :
                    /\ requests[i].after = c
                    /\ requests[i].answer \in {"rate_limited", "s403"}})

\* C11: in main1 a 401 answer to the first attempt of a page request ends
\* the query at once: it is the last request of the query, no retry and no
\* further page follow, and no backoff sleep is made for it.
C11_Main1AbortsOn401 ==
    fetcher = "main1" =>
        \A i \in 1..Len(requests) :
            (requests[i].attempt = 0 /\ requests[i].answer = "s401") =>
                /\ i = Len(requests)
                /\ fetch_pc = "done"
                /\ ~active
                /\ Len(sleeps) = Cardinality({j \in 1..(i - 1) : requests[j].answer # "ok"})

C11_Witness ==
    /\ fetcher = "main1"
    /\ Len(pages) = 2
    /\ Len(requests) = 2
    /\ requests[1].answer = "ok"
    /\ requests[2] = [after |-> EndCursor(NoCursor), attempt |-> 0, answer |-> "s401"]
    /\ fetch_pc = "done"
    /\ acc # <<>>

\* C12: in run_graphql_query (main3) and fetch_github_data_graphql (HPR
\* main1) a 401 answer to the first attempt ends the call after that one
\* request: no second attempt and no backoff sleep.
C12_NoRetryOn401 ==
    (fetcher \in {"main3", "hpr_main1"} /\ Len(requests) >= 1
        /\ requests[1].answer = "s401") =>
            /\ Len(requests) = 1
            /\ sleeps = <<>>
            /\ fetch_pc = "done"

\* C13: get_all_pr_commits_data (APR main5, HPR main4) gives up a page
\* after a bounded number of rate-limit signals: once a page's request was
\* answered RATE_LIMITED or 403 as often as the retry budget of 3 attempts
\* allows, the call has terminated.
C13_RateLimitRetriesBounded ==
    fetcher \in {"main5", "hpr_main4"} =>
        \A c \in 0..MaxPages :
            RateLimitedOn(c) >= GraphqlAttempts => fetch_pc = "done"

-----------------------------------------------------------------------------
(* Claims about the row loops of the batch scripts *)

Finished == batch_pc \in {"done", "aborted"}

OutputHas(id) == \E k \in 1..Len(out_file.rows) : out_file.rows[k].row = id

\* C14: in the first-commit scripts (APR main4, HPR main3), a pull request
\* whose fetch signalled a rate limit (RATE_LIMITED or HTTP 403) is fetched
\* again after the sleep: by the end of the run every rate-limited call is
\* followed by a later call for the same pull request.
C14_RateLimitedPrIsRetried ==
    (script \in FirstCommitScripts /\ batch_pc = "done") =>
        \A i \in 1..Len(calls) :
            calls[i].answer \in {"rate_limited", "s403"} =>
                \E j \in (i + 1)..Len(calls) : calls[j].row = calls[i].row

\* C15: in APR main3, when the commit listing of one pull request fails on
\* every retry attempt, only that pull request is skipped: the run is not
\* ended, and once it has ended every input row was processed and every
\* other well-formed row has its output row.
C15_OnlyFailedPrSkipped ==
    (script = "main3"
        /\ \E i \in 1..Len(calls) : calls[i].answer = "retries_failed") =>
            /\ batch_pc # "aborted"
            /\ batch_pc = "done" =>
                  /\ row_num = Len(in_rows)
                  /\ \A i \in 1..Len(calls) :
                        calls[i].answer # "retries_failed" => OutputHas(calls[i].row)

AddColumnSentinels == {"ERROR_MISSING_INFO", "ERROR_INVALID_PR_NUM", "NOT_FOUND_API_ERROR"}

AnswerFor(id) == (CHOOSE i \in 1..Len(calls) : calls[i].row = id).answer

\* C16: in the add-column scripts every input row yields exactly one output
\* row at the same position, with a sentinel in the added column when the
\* row is malformed or its lookup did not deliver the value (not found,
\* null pullRequest, null author); no lookup ends the batch early.  (The
\* input file lacks the column.)
C16_EveryRowKeptWithSentinel ==
    (script \in AddColumnScripts /\ ~column_in_header /\ in_rows # <<>>) =>
        /\ batch_pc # "aborted"
        /\ batch_pc = "done" =>
              /\ out_file.written
              /\ Len(out_file.rows) = Len(in_rows)
              /\ \A i \in 1..Len(in_rows) :
                    /\ out_file.rows[i].row = in_rows[i].id
                    /\ (in_rows[i].info # "ok" \/ AnswerFor(i) # "value")
                          => out_file.rows[i].value \in AddColumnSentinels

\* C17: every input item a script has passed over without using it was
\* reported by a printed message naming that item (unique-author-apr,
\* main2's sampling tasks, APR main4's rows).
C17_EverySkipIsPrinted ==
    script \in {"unique_author", "main2", "apr_main4"} =>
        \A i \in 1..row_num :
            (\A k \in 1..Len(processed_rows) : processed_rows[k].row # i) =>
                \E m \in 1..Len(printed) : printed[m].row = i

-----------------------------------------------------------------------------
(* Claims about recalculate_pr_metrics *)

\* C18: recalculate_pr_metrics is idempotent: applied to its own output it
\* returns the same rows with the same values.
C18_AggregationIdempotent ==
    agg_pc = "twice" => agg_twice = agg_once

-----------------------------------------------------------------------------
(* Claims about main1's lists *)

TimesIn(list, id) == Cardinality({i \in 1..Len(list) : list[i].id = id})

\* C19: every record in the merged list has a merge commit SHA other than
\* 'N/A'; once the closed query has been placed, each of its records
\* without a merge commit SHA is in the closed-not-merged list, and each of
\* its records is in exactly one of the two lists, once.
C19_MergedHasMergeCommit ==
    /\ \A i \in 1..Len(all_merged_prs_overall) :
          all_merged_prs_overall[i].merge_commit_sha # "N/A"
    /\ split_pc = "done" =>
          \A i \in 1..Len(current_query_prs_data) :
             LET r == current_query_prs_data[i]
                 m == TimesIn(all_merged_prs_overall, r.id)
                 c == TimesIn(all_closed_not_merged_prs_overall, r.id)
             IN /\ r.merge_commit_sha = "N/A" => c = 1
                /\ m + c = 1
                /\ TimesIn(all_open_prs_overall, r.id) = 0

C19_Witness ==
    /\ split_pc = "done"
    /\ all_merged_prs_overall # <<>>
    /\ all_closed_not_merged_prs_overall # <<>>
    /\ all_open_prs_overall # <<>>

\* C20: the number of records main1 has accumulated for a query never
\* exceeds 1000, and a page request is issued only while fewer than 1000
\* records have been accumulated.
C20_NeverMoreThanCap ==
    /\ [](cap_len <= SearchApiLimit)
    /\ [][cap_requests' # cap_requests => cap_len < SearchApiLimit]_vars

C20_Witness ==
    /\ cap_pc = "done"
    /\ cap_len = SearchApiLimit
    /\ cap_has_next
    /\ cap_requests = cap_page_count

-----------------------------------------------------------------------------
(* Claims about load_settings *)

\* what the settings file must be for the program to go on
SettingsAcceptable(f) ==
    /\ f.state = "ok"
    /\ f.lines # <<>>
    /\ f.lines[1] # <<>>
    /\ f.lines[1] # TokenPlaceholder
    /\ f.lines[1][1] \in {"ghp_", "github_pat_"}
    /\ \A i \in 2..Len(f.lines) : f.lines[i] # <<"">> => Len(f.lines[i]) = 2
    /\ \E i \in 2..Len(f.lines) : f.lines[i] # <<"">>

\* C21: unless the settings file exists, is non-empty, starts with a token
\* of prefix ghp_ or github_pat_ that is not the placeholder, has only
\* two-field non-blank later lines and at least one of them, load_settings
\* never returns and no network request is ever issued; once load_settings
\* has called exit() no request follows.
C21_BadSettingsAbortBeforeNetwork ==
    /\ ~SettingsAcceptable(settings_file) =>
          settings_pc # "loaded" /\ net_requests = 0
    /\ settings_pc = "exited" => net_requests = 0
    /\ (settings_pc = "lines" /\ settings_line = Len(settings_file.lines)
            /\ date_ranges_to_process # <<>>) => SettingsAcceptable(settings_file)

\* a file with a good token and a good range whose last line has three
\* fields made load_settings exit
C21_Witness ==
    /\ settings_pc = "exited"
    /\ settings_file.state = "ok"
    /\ Len(settings_file.lines) = 3
    /\ ~TokenRefused(settings_file.lines[1])
    /\ Len(settings_file.lines[2]) = 2
    /\ Len(settings_file.lines[3]) = 3
    /\ Len(date_ranges_to_process) = 1
    /\ net_requests = 0

-----------------------------------------------------------------------------
(* Claims about the first commit of a pull request *)

\* C22: the commit a script takes as the first commit of a pull request is
\* one of the fetched commits and no fetched commit has an earlier
\* timestamp, whatever the order in which the API returned the commits.
C22_FirstCommitIsEarliest ==
    (first_pc = "done" /\ first_commit # NoCommit) =>
        \E i \in 1..Len(api_commits) :
            /\ api_commits[i].oid = first_commit
            /\ \A j \in 1..Len(api_commits) :
                  api_commits[i].committedDate <= api_commits[j].committedDate

-----------------------------------------------------------------------------
(* Further properties of the inferred push dates *)

\* the list without the commits that lack a committer email or timestamp
RECURSIVE WithoutIncomplete(_)
WithoutIncomplete(cs) ==
    IF cs = <<>> THEN <<>>
    ELSE IF HasEmailAndDate(Head(cs)) THEN <<Head(cs)>> \o WithoutIncomplete(Tail(cs))
    ELSE WithoutIncomplete(Tail(cs))

\* C24: the push groups and the map that the function returns for a list
\* are those it returns for the same list with the commits lacking a
\* committer email or timestamp removed beforehand.
C24_IncompleteCommitsDoNotDisturb ==
    push_pc = "done" =>
        LET clean == CalculateInferredPushDates(variant, WithoutIncomplete(commits)) IN
        /\ commit_groups = clean.groups
        /\ sha_to_push_date_map = clean.map

\* C27: the push timestamp the returned map gives a commit is never earlier
\* than the commit's own committer timestamp.
C27_PushDateNotBeforeCommit ==
    push_pc = "done" =>
        \A i \in 1..Len(commits) :
            commits[i].sha \in DOMAIN sha_to_push_date_map =>
                sha_to_push_date_map[commits[i].sha] >= commits[i].date.t

OtherVariant == IF variant = "apr" THEN "analytics" ELSE "apr"

\* C28: the two copies of the function agree on every commit list: when one
\* returns a map the other returns the same map, and when one raises the
\* other raises.
C28_CopiesEquivalent ==
    LET other == CalculateInferredPushDates(OtherVariant, commits) IN
    /\ push_pc = "done" => (~other.raised /\ other.map = sha_to_push_date_map)
    /\ push_pc = "raised" => other.raised

-----------------------------------------------------------------------------
(* Further properties of the revision classifier *)

-----------------------------------------------------------------------------
(* Claims about the CSV files of the pipeline *)

\* C23: a CSV path is written by one script only: a file that one script
\* produced is never written by a different script (the result file of
\* main3 not by main5, the commit-details file of main6 by no other script).
C23_OneWriterPerCsvPath ==
    files_pc = "run" =>
        \A p \in DOMAIN fs :
            \A i, j \in 1..Len(fs[p]) : fs[p][i] = fs[p][j]

-----------------------------------------------------------------------------
(* Claims about the wait after a rate-limit signal *)

\* C25: whenever a fetch function sleeps in answer to a GraphQL
\* RATE_LIMITED signal, the sleep lasts 60 seconds, whatever the attempt
\* number of the request that received the signal.
C25_RateLimitWaitIsFixed ==
    [][(/\ Len(requests') = Len(requests) + 1
        /\ Last(requests').answer = "rate_limited"
        /\ Len(sleeps') = Len(sleeps) + 1)
            => Last(sleeps') = RateLimitWait]_vars

-----------------------------------------------------------------------------
(* Claims about the file the add-column scripts rewrite *)

\* C26: in add-author-info, add-pr-created-date and add-pr-times the input
\* CSV is rewritten only after every row has been processed: a run that an
\* exception ended (while opening or reading the file or processing a row)
\* has not opened the file for writing, and a written file holds one row per
\* input row of a run that reached its end.
C26_RewrittenOnlyAfterEveryRow ==
    script \in {"add_author_info", "add_pr_created_date", "add_pr_times"} =>
        /\ batch_pc = "aborted" => out_file = NoOutput
        /\ out_file.written =>
              /\ batch_pc = "done"
              /\ row_num = Len(in_rows)
              /\ Len(out_file.rows) = Len(in_rows)

\* an exception in the second row, after the first was processed
C26_Witness ==
    /\ script \in {"add_author_info", "add_pr_created_date", "add_pr_times"}
    /\ batch_pc = "aborted"
    /\ processed_rows # <<>>
    /\ calls # <<>>
    /\ out_file = NoOutput

\* C30: an add-column script (add-author-info, add-pr-created-date,
\* add-state, add-pr-times) run on a CSV that already has the column(s) it
\* adds issues no API request and does not write the file.
C30_SecondRunChangesNothing ==
    (script \in ColumnAdders /\ column_in_header) =>
        /\ calls = <<>>
        /\ out_file = NoOutput

====
